---- MODULE Spec2Model ----
(***************************************************************************)
(* Labang-Online: the certificate-request table, the request-identifier    *)
(* generator of CertificateRequest.save, and the owner and staff request   *)
(* handlers that act on certificate requests; the accounts (registration,  *)
(* login, user management, password reset by a mailed code); and the       *)
(* incident reports.                                                       *)
(*                                                                         *)
(* Python strings are sequences of one-character strings, so that          *)
(* formatting, parsing, prefix tests and the ORDER BY on request_id are    *)
(* computed and not assumed.  Python None is the string "None" for        *)
(* choice fields and timestamps, NoneStr for text fields, and <<>> for an   *)
(* optional value whose presence is <<value>>.                             *)
(***************************************************************************)
EXTENDS Integers, Sequences, FiniteSets, TLC

VARIABLES
    requests,   \* the CertificateRequest table: a set of rows
    nextPk,     \* the table's auto-increment primary key
    year,       \* timezone.now().year
    resp,       \* the response of the last request handled
    issued,     \* history: the request_id of every insert of the run, in order
    procs,      \* the submissions in flight (interleaved creation only)
    users,      \* the User table: a set of rows
    codes,      \* the PasswordResetCode table: a set of rows
    sessions,   \* request.session and the user logged in, per browser
    clock,      \* the time timezone.now() reads, in seconds
    reports     \* the IncidentReport table: a set of rows

vars == <<requests, nextPk, year, resp, issued, procs, users, codes, sessions, clock,
         reports>>

\* the state of the accounts application
accounts == <<users, codes, sessions, clock>>

----------------------------------------------------------------------------
\* Bounds of the model.

\* the rows inserted over a run
MaxCreates == 2
\* the requests the lifecycle specification follows, one after the other
MaxLives == 2
\* the last year the clock reaches
LastYear == 2026

----------------------------------------------------------------------------
\* Strings.

NoneStr == <<"None">>

DigitChars == <<"0", "1", "2", "3", "4", "5", "6", "7", "8", "9">>

IsDigit(c) == \E i \in 1..10 : DigitChars[i] = c

DigitVal(c) == (CHOOSE i \in 1..10 : DigitChars[i] = c) - 1

\* str(n) for n >= 0
RECURSIVE Str(_)
Str(n) == IF n < 10 THEN <<DigitChars[n + 1]>>
          ELSE Append(Str(n \div 10), DigitChars[(n % 10) + 1])

\* f"{n:04d}" for n >= 0: zero-padded to a width of at least 4
RECURSIVE ZeroPad(_, _)
ZeroPad(s, width) == IF Len(s) >= width THEN s ELSE ZeroPad(<<"0">> \o s, width)

Format04d(n) == ZeroPad(Str(n), 4)

\* int(s); the ValueError cases are those where IsInt(s) is false
IsInt(s) == Len(s) > 0 /\ \A i \in 1..Len(s) : IsDigit(s[i])

RECURSIVE ParseInt(_)
ParseInt(s) == IF Len(s) = 0 THEN 0
               ELSE 10 * ParseInt(SubSeq(s, 1, Len(s) - 1)) + DigitVal(s[Len(s)])

StartsWith(s, p) == Len(s) >= Len(p) /\ SubSeq(s, 1, Len(p)) = p

\* s.split('-')[-1]
SplitLast(s) ==
    LET dashes == {i \in 1..Len(s) : s[i] = "-"}
        last == IF dashes = {} THEN 0
                ELSE CHOOSE i \in dashes : \A j \in dashes : j <= i
    IN SubSeq(s, last + 1, Len(s))

\* s.strip()
IsSpace(c) == c = " "

RECURSIVE LStrip(_)
LStrip(s) == IF Len(s) > 0 /\ IsSpace(s[1]) THEN LStrip(Tail(s)) ELSE s

RECURSIVE RStrip(_)
RStrip(s) == IF Len(s) > 0 /\ IsSpace(s[Len(s)])
             THEN RStrip(SubSeq(s, 1, Len(s) - 1)) ELSE s

Strip(s) == RStrip(LStrip(s))

\* the code point order of the characters a request_id is made of
Ord(c) == IF c = "-" THEN 45
          ELSE IF IsDigit(c) THEN 48 + DigitVal(c)
          ELSE IF c = "E" THEN 69
          ELSE IF c = "Q" THEN 81
          ELSE IF c = "R" THEN 82
          ELSE 0

\* a < b in the string order of ORDER BY
RECURSIVE StrLess(_, _)
StrLess(a, b) ==
    IF Len(b) = 0 THEN FALSE
    ELSE IF Len(a) = 0 THEN TRUE
    ELSE IF a[1] = b[1] THEN StrLess(Tail(a), Tail(b))
    ELSE Ord(a[1]) < Ord(b[1])

----------------------------------------------------------------------------
\* CertificateRequest.save: the request identifier.

max_attempts == 100

\* random.randint(1, 10)
Jitter == 1..10

\* int(time.time() * 1000): the readings the fallback may take
TimeMillis == {1700000007, 1700009999}

\* f"REQ-{year}-"
IdPrefix(y) == <<"R", "E", "Q", "-">> \o Str(y) \o <<"-">>

\* f"REQ-{year}-{next_number:04d}"
FormatRequestId(y, n) == IdPrefix(y) \o Format04d(n)

\* filter(request_id__startswith=f"REQ-{year}-").order_by('-request_id').first()
ExistingForYear(table, y) == {r \in table : StartsWith(r.request_id, IdPrefix(y))}

FirstByRequestIdDesc(rows) ==
    CHOOSE r \in rows : \A o \in rows : ~StrLess(r.request_id, o.request_id)

\* next_number before the jitter
NextNumber(table, y) ==
    LET existing == ExistingForYear(table, y)
    IN IF existing = {} THEN 1
       ELSE LET tail == SplitLast(FirstByRequestIdDesc(existing).request_id)
            IN IF IsInt(tail) THEN ParseInt(tail) + 1 ELSE 1

\* filter(request_id=...).exists()
IdExists(table, id) == \E r \in table : r.request_id = id

\* the identifiers attempt number `attempt` may assign, given next_number
\* before the jitter
CandidatesFrom(next_number, y, attempt) ==
    IF attempt > 0
    THEN {FormatRequestId(y, next_number + j) : j \in Jitter}
    ELSE {FormatRequestId(y, next_number)}

\* one pass of the loop: the max query and the candidates it leads to
Candidates(table, y, attempt) ==
    CandidatesFrom(NextNumber(table, y), y, attempt)

\* the for-else branch: int(time.time() * 1000) % 10000
FallbackIds(y) == {FormatRequestId(y, t % 10000) : t \in TimeMillis}

\* The identifiers the loop may end with when it runs against an unchanging
\* table.  The max query of every pass reads the same table, so its result
\* next_number is computed once.  A candidate that is not stored ends the
\* loop (break); pass number a is reached when every pass before it could
\* draw a stored candidate; the for-else branch is reached when all
\* max_attempts passes could.
GenerateRequestId(table, y) ==
    LET next_number == NextNumber(table, y)
        attempts == 0..(max_attempts - 1)
        \* the stored candidates of the first pass and of a pass with jitter
        stored_first == {c \in CandidatesFrom(next_number, y, 0) : IdExists(table, c)}
        stored_later == {c \in CandidatesFrom(next_number, y, 1) : IdExists(table, c)}
        Stored(a) == IF a > 0 THEN stored_later ELSE stored_first
        Reached(a) == \A b \in 0..(a - 1) : Stored(b) # {}
    IN UNION {CandidatesFrom(next_number, y, a) \ Stored(a) :
                a \in {a \in attempts : Reached(a)}}
       \cup (IF \A a \in attempts : Stored(a) # {} THEN FallbackIds(y) ELSE {})

----------------------------------------------------------------------------
\* Actors and request inputs.

Residents == {"u1", "u2"}

Staff == {"admin"}

Anonymous == "anonymous"

Actors == Residents \cup Staff \cup {Anonymous}

Methods == {"GET", "POST"}

\* timezone.now() as stored in paid_at and claimed_at
Times == {"t1"}

\* request.POST.get('purpose'): absent, 10 characters of which 6 remain after
\* strip(), and 10 characters
Purposes == {
    NoneStr,
    <<" ", " ", "s", "c", "h", "o", "o", "l", " ", " ">>,
    <<"e", "m", "p", "l", "o", "y", "m", "e", "n", "t">>}

\* request.POST.get('payment_mode')
ModeInputs == {"gcash", "counter", "None"}

\* request.POST.get('reference_number', ''): blank, 9 characters padded to
\* 11, and the 10 characters 1234567890
ReferenceInputs == {
    <<" ">>,
    <<" ", "1", "2", "3", "4", "5", "6", "7", "8", "9", " ">>,
    <<"1", "2", "3", "4", "5", "6", "7", "8", "9", "0">>}

\* request.POST.get('claim_status')
ClaimInputs == {"processing", "ready", "claimed", "failed"}

\* a request_id of the URL that no row has
UnknownId == <<"R", "E", "Q", "-", "0">>

\* the request_id values a URL is tried with
IdArgs == {r.request_id : r \in requests} \cup {UnknownId}

----------------------------------------------------------------------------
\* Responses.

\* render(...) with the message added before it, if any
Render(view, level) == [view |-> view, status |-> "200", level |-> level]

\* redirect(...) with the message added before it, if any
Redirect(view, level) == [view |-> view, status |-> "302", level |-> level]

\* get_object_or_404 finding no row
NotFound(view) == [view |-> view, status |-> "404", level |-> "none"]

\* an exception no handler catches
ServerError(view) == [view |-> view, status |-> "500", level |-> "none"]

\* @login_required sending an anonymous caller to the login page
ToLogin(view) == [view |-> view, status |-> "302", level |-> "login"]

NoResponse == [view |-> "none", status |-> "none", level |-> "none"]

----------------------------------------------------------------------------
\* The CertificateRequest table.

\* a row that is charged 50 whatever the view passes
NewRequestFlatFee(pk, user, id, ctype, purpose, amount) ==
    [pk |-> pk, user |-> user, request_id |-> id,
     certificate_type |-> ctype, purpose |-> purpose,
     payment_status |-> "unpaid", payment_mode |-> "None",
     payment_amount |-> 50, payment_reference |-> NoneStr,
     claim_status |-> "processing",
     paid_at |-> "None", claimed_at |-> "None",
     proof_photo_url |-> NoneStr,
     business_name |-> NoneStr, business_type |-> NoneStr,
     business_nature |-> NoneStr, business_address |-> NoneStr,
     employees_count |-> <<>>]

\* the row objects.create(...) builds, with the model's field defaults; the
\* nullable integer employees_count is <<>> for NULL and <<n>> for n
NewRequest(pk, user, id, ctype, purpose, amount) ==
    [pk |-> pk, user |-> user, request_id |-> id,
     certificate_type |-> ctype, purpose |-> purpose,
     payment_status |-> "unpaid", payment_mode |-> "None",
     payment_amount |-> amount, payment_reference |-> NoneStr,
     claim_status |-> "processing",
     paid_at |-> "None", claimed_at |-> "None",
     proof_photo_url |-> NoneStr,
     business_name |-> NoneStr, business_type |-> NoneStr,
     business_nature |-> NoneStr, business_address |-> NoneStr,
     employees_count |-> <<>>]

\* request_id = CharField(unique=True): the insert the storage accepts
UniqueOk(table, id) == ~IdExists(table, id)

\* InsertOk for a request_id column declared without unique=True
InsertUnchecked(table, row) == TRUE

\* super().save() of a new row: INSERT, or IntegrityError
InsertOk(table, row) == UniqueOk(table, row.request_id)

\* instance.save() of a stored row: UPDATE by primary key
Update(table, row) == {r \in table : r.pk # row.pk} \cup {row}

\* instance.delete()
Delete(table, row) == {r \in table : r.pk # row.pk}

\* a lookup by request_id alone
OwnedByAnyone(table, id, user) == {r \in table : r.request_id = id}

\* the rows get_object_or_404(CertificateRequest, request_id=id, user=user) matches
OwnedBy(table, id, user) == {r \in table : r.request_id = id /\ r.user = user}

\* the rows get_object_or_404(CertificateRequest, request_id=id) matches
ById(table, id) == {r \in table : r.request_id = id}

\* set_password / make_password: the stored form of a password
PasswordHash(password) == <<"pbkdf2">> \o password

\* a row of the User table
UserRow(id, username, email, password, is_staff, is_superuser, confirmed) ==
    [id |-> id, username |-> username, email |-> email,
     password |-> PasswordHash(password),
     is_staff |-> is_staff, is_superuser |-> is_superuser,
     is_active |-> TRUE, resident_confirmation |-> confirmed]

\* the password every account of the start was given
FirstPassword == <<"p", "a", "s", "s", "w", "o", "r", "d">>

\* the accounts the request lifecycle runs with: the first admin, made by
\* createsuperuser, and two verified residents
InitialUsers ==
    {UserRow(1, "admin", "admin@x", FirstPassword, TRUE, TRUE, TRUE),
     UserRow(2, "u1", "u1@x", FirstPassword, FALSE, FALSE, TRUE),
     UserRow(3, "u2", "u2@x", FirstPassword, FALSE, FALSE, TRUE)}

\* the browsers requests come from
Browsers == {"b1", "b2"}

\* a session with nobody logged in and no key set; user and reset_code_id
\* are primary keys, which start at 1, and 0 stands for a missing key
NoSession == [user |-> 0, reset_code_id |-> 0, verification_code |-> NoneStr]

\* the accounts state of the specifications that do not act on accounts
InitAccounts ==
    /\ users = InitialUsers
    /\ codes = {}
    /\ sessions = [b \in Browsers |-> NoSession]
    /\ clock = 0

\* a test that lets every stored account pass
is_admin_any_account(user) == \E u \in users : u.username = user

\* is_admin(user), for the username of request.user
is_admin(user) ==
    \E u \in users : u.username = user /\ (u.is_staff \/ u.is_superuser)

----------------------------------------------------------------------------
\* Request handlers, each run from its first line to its response.

\* a response that leaves the table as it is
Reply(r) ==
    /\ resp' = r
    /\ UNCHANGED <<reports, requests, nextPk, year, issued, procs, users, codes, sessions, clock>>

\* a response after the table became `table`
Store(table, r) ==
    /\ requests' = table
    /\ resp' = r
    /\ UNCHANGED <<reports, nextPk, year, issued, procs, users, codes, sessions, clock>>

\* CertificateRequest.objects.create(...) once save() has chosen request_id:
\* the INSERT, or the IntegrityError the view does not catch
CreateRow(view, row) ==
    IF InsertOk(requests, row)
    THEN /\ requests' = requests \cup {row}
         /\ nextPk' = nextPk + 1
         /\ issued' = Append(issued, row.request_id)
         /\ resp' = Redirect(view, "success")
         /\ UNCHANGED <<reports, year, procs, users, codes, sessions, clock>>
    ELSE Reply(ServerError(view))

\* not purpose or len(purpose.strip()) < 10
PurposeRejected(purpose) ==
    purpose = NoneStr \/ Len(purpose) = 0 \/ Len(Strip(purpose)) < 10

barangay_clearance_request(actor, method, purpose) ==
    LET view == "barangay_clearance_request"
    IN IF actor = Anonymous THEN Reply(ToLogin(view))
       ELSE IF method # "POST" THEN Reply(Render(view, "none"))
       ELSE IF PurposeRejected(purpose) THEN Reply(Render(view, "error"))
       ELSE \E id \in GenerateRequestId(requests, year) :
                CreateRow(view, NewRequest(nextPk, actor, id,
                                           "barangay_clearance", purpose, 50))

brgy_residency_cert(actor, method, purpose) ==
    LET view == "brgy_residency_cert"
    IN IF actor = Anonymous THEN Reply(ToLogin(view))
       ELSE IF method # "POST" THEN Reply(Render(view, "none"))
       ELSE IF PurposeRejected(purpose) THEN Reply(Render(view, "error"))
       ELSE \E id \in GenerateRequestId(requests, year) :
                CreateRow(view, NewRequest(nextPk, actor, id,
                                           "residency", purpose, 30))

brgy_goodmoral_character(actor, method, purpose) ==
    LET view == "brgy_goodmoral_character"
    IN IF actor = Anonymous THEN Reply(ToLogin(view))
       ELSE IF method # "POST" THEN Reply(Render(view, "none"))
       ELSE IF PurposeRejected(purpose) THEN Reply(Render(view, "error"))
       ELSE \E id \in GenerateRequestId(requests, year) :
                CreateRow(view, NewRequest(nextPk, actor, id,
                                           "good_moral", purpose, 40))

\* str.lower() on the letters of a content type
UpperChars == <<"A", "E", "G", "I", "J", "M", "N", "P">>
LowerChars == <<"a", "e", "g", "i", "j", "m", "n", "p">>
LowerChar(c) == IF \E i \in 1..Len(UpperChars) : UpperChars[i] = c
                THEN LowerChars[CHOOSE i \in 1..Len(UpperChars) : UpperChars[i] = c]
                ELSE c
Lower(s) == [i \in 1..Len(s) |-> LowerChar(s[i])]

\* allowed_types = {'image/jpeg', 'image/jpg', 'image/png'}
allowed_types ==
    {<<"i", "m", "a", "g", "e", "/", "j", "p", "e", "g">>,
     <<"i", "m", "a", "g", "e", "/", "j", "p", "g">>,
     <<"i", "m", "a", "g", "e", "/", "p", "n", "g">>}

max_size_mb == 5

\* an accepted content type of any size
TooLargeNever(photo) == FALSE

\* proof_photo.size > max_size_mb * 1024 * 1024
TooLarge(photo) == photo.size > max_size_mb * 1024 * 1024

\* request.FILES.get('proof_photo') is <<>> for no file and <<photo>> for a
\* file; upload is what upload_to_supabase returns, a URL or None
brgy_indigency_cert(actor, method, purpose, proof_photo, upload) ==
    LET view == "brgy_indigency_cert"
    IN IF actor = Anonymous THEN Reply(ToLogin(view))
       ELSE IF method # "POST" THEN Reply(Render(view, "none"))
       ELSE IF PurposeRejected(purpose) THEN Reply(Render(view, "error"))
       ELSE IF proof_photo = <<>> THEN Reply(Render(view, "error_no_photo"))
       ELSE IF Lower(proof_photo[1].content_type) \notin allowed_types
       THEN Reply(Render(view, "error_type"))
       ELSE IF TooLarge(proof_photo[1]) THEN Reply(Render(view, "error_size"))
       ELSE IF upload = NoneStr \/ Len(upload) = 0
       THEN Reply(Render(view, "error_upload"))
       ELSE \E id \in GenerateRequestId(requests, year) :
                CreateRow(view,
                          [NewRequest(nextPk, actor, id, "indigency", purpose, 30)
                              EXCEPT !.proof_photo_url = upload])

\* a field of request.POST that is None or '' is falsy
Falsy(field) == field = NoneStr \/ Len(field) = 0

\* int(s) of a str: surrounding whitespace and one sign are allowed
SignOf(t) == IF Len(t) > 0 /\ t[1] = "-" THEN -1 ELSE 1
Unsigned(t) == IF Len(t) > 0 /\ t[1] \in {"-", "+"} THEN Tail(t) ELSE t
IntRaises(s) == ~IsInt(Unsigned(Strip(s)))
IntOf(s) == SignOf(Strip(s)) * ParseInt(Unsigned(Strip(s)))

\* a check of the count that lets a negative number pass
CountRejectedIfNotInt(employees_count) == IntRaises(employees_count)

\* int(employees_count) raising ValueError, or the view raising it for a
\* negative number
CountRejected(employees_count) ==
    IntRaises(employees_count) \/ IntOf(employees_count) < 0

\* form holds business_name, business_type, business_nature,
\* business_address and employees_count of request.POST
brgy_business_cert(actor, method, purpose, form) ==
    LET view == "brgy_business_cert"
    IN IF actor = Anonymous THEN Reply(ToLogin(view))
       ELSE IF method # "POST" THEN Reply(Render(view, "none"))
       ELSE IF PurposeRejected(purpose) THEN Reply(Render(view, "error"))
       ELSE IF \/ Falsy(form.business_name) \/ Falsy(form.business_type)
               \/ Falsy(form.business_nature) \/ Falsy(form.business_address)
               \/ Falsy(form.employees_count)
       THEN Reply(Render(view, "error_fields"))
       ELSE IF CountRejected(form.employees_count)
       THEN Reply(Render(view, "error_count"))
       ELSE \E id \in GenerateRequestId(requests, year) :
                CreateRow(view,
                          [NewRequest(nextPk, actor, id, "business_clearance",
                                      purpose, 100)
                              EXCEPT !.business_name = form.business_name,
                                     !.business_type = form.business_type,
                                     !.business_nature = form.business_nature,
                                     !.business_address = form.business_address,
                                     !.employees_count = <<IntOf(form.employees_count)>>])

\* the guard of payment_mode_selection
ModeSelectionClosed(row) == row.payment_status = "paid"

payment_mode_selection(actor, id, method, mode) ==
    LET view == "payment_mode_selection"
        found == OwnedBy(requests, id, actor)
    IN IF actor = Anonymous THEN Reply(ToLogin(view))
       ELSE IF found = {} THEN Reply(NotFound(view))
       ELSE IF Cardinality(found) > 1 THEN Reply(ServerError(view))
       ELSE LET row == CHOOSE r \in found : TRUE
            IN IF ModeSelectionClosed(row) THEN Reply(Redirect(view, "info"))
               ELSE IF method # "POST" THEN Reply(Render(view, "none"))
               ELSE IF mode \notin {"gcash", "counter"}
                    THEN Reply(Render(view, "error"))
               ELSE Store(Update(requests, [row EXCEPT !.payment_mode = mode]),
                          Redirect(view, "none"))

\* the guard of gcash_payment and counter_payment
PaymentClosed(row) == row.payment_status = "paid"

\* WrongMode that lets pass a request whose mode was never chosen
WrongModeIfCounter(row) == row.payment_mode = "counter"

\* cert_request.payment_mode != 'gcash'
WrongMode(row) == row.payment_mode # "gcash"

\* the reference gcash_payment accepts: not empty and at least 10 characters
ReferenceAccepted(reference) == Len(reference) > 0 /\ ~(Len(reference) < 10)

gcash_payment(actor, id, method, reference_input) ==
    LET view == "gcash_payment"
        found == OwnedBy(requests, id, actor)
    IN IF actor = Anonymous THEN Reply(ToLogin(view))
       ELSE IF found = {} THEN Reply(NotFound(view))
       ELSE IF Cardinality(found) > 1 THEN Reply(ServerError(view))
       ELSE LET row == CHOOSE r \in found : TRUE
                reference_number == Strip(reference_input)
            IN IF PaymentClosed(row) THEN Reply(Redirect(view, "info"))
               ELSE IF WrongMode(row) THEN Reply(Redirect(view, "error"))
               ELSE IF method # "POST" THEN Reply(Render(view, "none"))
               ELSE IF ~ReferenceAccepted(reference_number)
                    THEN Reply(Render(view, "error"))
               ELSE Store(Update(requests,
                                 [row EXCEPT !.payment_reference = reference_number,
                                             !.payment_status = "pending"]),
                          Redirect(view, "success"))

\* f"COUNTER-{cert_request.request_id}"
CounterReference(id) == <<"C", "O", "U", "N", "T", "E", "R", "-">> \o id

counter_payment(actor, id, method) ==
    LET view == "counter_payment"
        found == OwnedBy(requests, id, actor)
    IN IF actor = Anonymous THEN Reply(ToLogin(view))
       ELSE IF found = {} THEN Reply(NotFound(view))
       ELSE IF Cardinality(found) > 1 THEN Reply(ServerError(view))
       ELSE LET row == CHOOSE r \in found : TRUE
                \* save(update_fields=['payment_mode']) when the mode differs
                moded == IF row.payment_mode # "counter"
                         THEN [row EXCEPT !.payment_mode = "counter"] ELSE row
            IN IF PaymentClosed(row) THEN Reply(Redirect(view, "info"))
               ELSE IF method # "POST"
                    THEN Store(Update(requests, moded), Render(view, "none"))
               ELSE Store(Update(requests,
                                 [moded EXCEPT
                                     !.payment_status = "pending",
                                     !.payment_reference =
                                         CounterReference(row.request_id)]),
                          Redirect(view, "none"))

\* Cancellable with the guard the payment views use
CancellableUnlessPaid(row) == ~(row.payment_status = "paid")

\* the requests cancel_request deletes
Cancellable(row) == ~(row.payment_status # "unpaid")

cancel_request(actor, id) ==
    LET view == "cancel_request"
        found == OwnedBy(requests, id, actor)
    IN IF actor = Anonymous THEN Reply(ToLogin(view))
       ELSE IF found = {} THEN Reply(NotFound(view))
       ELSE IF Cardinality(found) > 1 THEN Reply(ServerError(view))
       ELSE LET row == CHOOSE r \in found : TRUE
            IN IF ~Cancellable(row) THEN Reply(Redirect(view, "error"))
               ELSE Store(Delete(requests, row), Redirect(view, "none"))

\* @user_passes_test(is_admin, login_url='accounts:personal_info') refusing
ToPersonalInfo(view) == [view |-> view, status |-> "302", level |-> "denied"]

\* Verifiable that also takes up a rejected payment
VerifiableOrFailed(row) == row.payment_status \in {"pending", "failed"}

\* the payments admin_verify_payment verifies
Verifiable(row) == row.payment_status = "pending"

\* PaymentVerified without the assignment of paid_at
PaymentVerifiedUnstamped(row, now) == [row EXCEPT !.payment_status = "paid"]

\* the row admin_verify_payment saves
PaymentVerified(row, now) ==
    [row EXCEPT !.payment_status = "paid", !.paid_at = now]

admin_verify_payment(actor, id, method, now) ==
    LET view == "admin_verify_payment"
        found == ById(requests, id)
    IN IF actor = Anonymous THEN Reply(ToLogin(view))
       ELSE IF ~is_admin(actor) THEN Reply(ToPersonalInfo(view))
       ELSE IF method # "POST" THEN Reply(Redirect(view, "none"))
       ELSE IF found = {} THEN Reply(NotFound(view))
       ELSE IF Cardinality(found) > 1 THEN Reply(ServerError(view))
       ELSE LET row == CHOOSE r \in found : TRUE
            IN IF Verifiable(row)
               THEN Store(Update(requests, PaymentVerified(row, now)),
                          Redirect(view, "success"))
               ELSE Reply(Redirect(view, "error"))

\* the payments admin_reject_payment rejects
Rejectable(row) == row.payment_status = "pending"

\* the row admin_reject_payment saves
PaymentRejected(row) ==
    [row EXCEPT !.payment_status = "failed", !.claim_status = "failed"]

admin_reject_payment(actor, id, method) ==
    LET view == "admin_reject_payment"
        found == ById(requests, id)
    IN IF actor = Anonymous THEN Reply(ToLogin(view))
       ELSE IF ~is_admin(actor) THEN Reply(ToPersonalInfo(view))
       ELSE IF method # "POST" THEN Reply(Redirect(view, "none"))
       ELSE IF found = {} THEN Reply(NotFound(view))
       ELSE IF Cardinality(found) > 1 THEN Reply(ServerError(view))
       ELSE LET row == CHOOSE r \in found : TRUE
            IN IF Rejectable(row)
               THEN Store(Update(requests, PaymentRejected(row)),
                          Redirect(view, "success"))
               ELSE Reply(Redirect(view, "error"))

\* a claim update that is coupled to payment: it leaves a request that is
\* not paid as it is
ClaimUpdatedIfPaid(row, new_status, now) ==
    IF row.payment_status # "paid" THEN row
    ELSE IF new_status = "claimed"
    THEN [row EXCEPT !.claim_status = new_status, !.claimed_at = now]
    ELSE [row EXCEPT !.claim_status = new_status]

\* the row admin_update_claim_status saves for an accepted new_status
ClaimUpdated(row, new_status, now) ==
    IF new_status = "claimed"
    THEN [row EXCEPT !.claim_status = new_status, !.claimed_at = now]
    ELSE [row EXCEPT !.claim_status = new_status]

admin_update_claim_status(actor, id, method, new_status, now) ==
    LET view == "admin_update_claim_status"
        found == ById(requests, id)
    IN IF actor = Anonymous THEN Reply(ToLogin(view))
       ELSE IF ~is_admin(actor) THEN Reply(ToPersonalInfo(view))
       ELSE IF method # "POST" THEN Reply(Redirect(view, "none"))
       ELSE IF found = {} THEN Reply(NotFound(view))
       ELSE IF Cardinality(found) > 1 THEN Reply(ServerError(view))
       ELSE LET row == CHOOSE r \in found : TRUE
            IN IF new_status \in {"processing", "ready", "claimed"}
               THEN Store(Update(requests, ClaimUpdated(row, new_status, now)),
                          Redirect(view, "success"))
               ELSE Reply(Redirect(view, "error"))

admin_delete_certificate(actor, id, method) ==
    LET view == "admin_delete_certificate"
        found == ById(requests, id)
    IN IF actor = Anonymous THEN Reply(ToLogin(view))
       ELSE IF ~is_admin(actor) THEN Reply(ToPersonalInfo(view))
       ELSE IF method # "POST" THEN Reply(Redirect(view, "none"))
       ELSE IF found = {} THEN Reply(NotFound(view))
       ELSE IF Cardinality(found) > 1 THEN Reply(ServerError(view))
       ELSE LET row == CHOOSE r \in found : TRUE
            IN Store(Delete(requests, row), Redirect(view, "success"))

request_detail(actor, id) ==
    LET view == "request_detail"
        found == OwnedBy(requests, id, actor)
    IN IF actor = Anonymous THEN Reply(ToLogin(view))
       ELSE IF found = {} THEN Reply(NotFound(view))
       ELSE IF Cardinality(found) > 1 THEN Reply(ServerError(view))
       ELSE Reply(Render(view, "none"))

----------------------------------------------------------------------------
\* Incident reports.

\* valid_report_types of file_report
valid_report_types == {"Theft", "Assault", "Vandalism", "Disturbance", "Other"}

\* a status list with a fifth value
valid_statuses_and_closed ==
    {"Pending", "Under Investigation", "Mediation Scheduled", "Resolved", "Closed"}

\* valid_statuses of admin_update_report_status
valid_statuses ==
    {"Pending", "Under Investigation", "Mediation Scheduled", "Resolved"}

\* the names bound in the module reports/models.py: it imports models and
\* settings, and defines IncidentReport
ModuleNames == {"models", "settings", "IncidentReport"}

\* the hexadecimal digits in capitals
HexChars == {"0", "1", "2", "3", "4", "5", "6", "7", "8", "9",
             "A", "B", "C", "D", "E", "F"}

\* f"RPT-{uuid.uuid4().hex[:8].upper()}" for the draws of uuid4 modelled
ReportIds == {<<"R", "P", "T", "-", "0", "A", "1", "B", "2", "C", "3", "D">>,
              <<"R", "P", "T", "-", "F", "F", "0", "0", "F", "F", "0", "0">>}

\* IncidentReport.save(): a row without report_id takes one from uuid4, and
\* the lookup of the name uuid, which the module does not bind, raises
\* NameError before super().save(); the result is the set of rows that may
\* be inserted, empty when save raises
IncidentReport_save(row) ==
    IF Len(row.report_id) > 0 THEN {row}
    ELSE IF "uuid" \notin ModuleNames THEN {}
    ELSE {[row EXCEPT !.report_id = id] :
             id \in {i \in ReportIds : \A r \in reports : r.report_id # i}}

\* the row IncidentReport.objects.create(...) of file_report builds
NewReport(user, report_type, place, message) ==
    [report_id |-> <<>>, user |-> user, incident_type |-> report_type,
     place |-> Strip(place), message |-> Strip(message), status |-> "Pending"]

\* a response after the IncidentReport table became `table`
StoreReports(table, r) ==
    /\ reports' = table
    /\ resp' = r
    /\ UNCHANGED <<requests, nextPk, year, issued, procs, users, codes, sessions, clock>>

\* len(place.strip()) < 5
PlaceTooShort(place) == Len(Strip(place)) < 5

\* a message check that accepts 19 characters
MessageTooShortUnder19(message) == Len(Strip(message)) < 19

\* len(message.strip()) < 20
MessageTooShort(message) == Len(Strip(message)) < 20

\* report_type is "None" when request.POST has none; place and message are
\* NoneStr then
file_report(actor, method, report_type, place, message) ==
    LET view == "file_report"
    IN IF actor = Anonymous THEN Reply(ToLogin(view))
       ELSE IF method # "POST" THEN Reply(Render(view, "none"))
       ELSE IF report_type \in {"None", ""} \/ Falsy(place) \/ Falsy(message)
       THEN Reply(Render(view, "error_required"))
       ELSE IF report_type \notin valid_report_types
       THEN Reply(Render(view, "error_type"))
       ELSE IF PlaceTooShort(place) THEN Reply(Render(view, "error_place"))
       ELSE IF MessageTooShort(message) THEN Reply(Render(view, "error_message"))
       ELSE LET saved == IncidentReport_save(NewReport(actor, report_type,
                                                       place, message))
            IN IF saved = {} THEN Reply(Render(view, "error_exception"))
               ELSE \E incident \in saved :
                        StoreReports(reports \cup {incident},
                                     Redirect(view, "none"))

\* the rows get_object_or_404(IncidentReport, report_id=id, user=user) matches
ReportOwnedBy(table, id, user) == {r \in table : r.report_id = id /\ r.user = user}

report_detail(actor, id) ==
    LET view == "report_detail"
    IN IF actor = Anonymous THEN Reply(ToLogin(view))
       ELSE IF ReportOwnedBy(reports, id, actor) = {} THEN Reply(NotFound(view))
       ELSE Reply(Render(view, "none"))

admin_update_report_status(actor, id, method, new_status) ==
    LET view == "admin_update_report_status"
    IN IF actor = Anonymous THEN Reply(ToLogin(view))
       ELSE IF ~is_admin(actor) THEN Reply(ToPersonalInfo(view))
       ELSE IF method # "POST" THEN Reply(Redirect(view, "none"))
       ELSE IF \A r \in reports : r.report_id # id THEN Reply(NotFound(view))
       ELSE IF new_status \in valid_statuses
       THEN StoreReports({IF r.report_id = id THEN [r EXCEPT !.status = new_status]
                          ELSE r : r \in reports},
                         Redirect(view, "success"))
       ELSE Reply(Redirect(view, "error"))

admin_delete_report(actor, id, method) ==
    LET view == "admin_delete_report"
    IN IF actor = Anonymous THEN Reply(ToLogin(view))
       ELSE IF ~is_admin(actor) THEN Reply(ToPersonalInfo(view))
       ELSE IF method # "POST" THEN Reply(Redirect(view, "none"))
       ELSE IF \A r \in reports : r.report_id # id THEN Reply(NotFound(view))
       ELSE StoreReports({r \in reports : r.report_id # id},
                         Redirect(view, "success"))

----------------------------------------------------------------------------
\* The request lifecycle: requests handled one at a time.

Init ==
    /\ requests = {}
    /\ nextPk = 1
    /\ year = 2025
    /\ resp = NoResponse
    /\ issued = <<>>
    /\ procs = <<>>
    /\ InitAccounts
    /\ reports = {}

\* Spec follows one stored request at a time through its whole lifecycle,
\* under every request and input of every actor; a request is submitted when
\* the one before it was cancelled or deleted.  Tables of several rows are
\* those of SpecIds and SpecConc.
Submit ==
    /\ requests = {}
    /\ nextPk <= MaxLives
    /\ \E actor \in Residents \cup {Anonymous}, method \in Methods, purpose \in Purposes :
           barangay_clearance_request(actor, method, purpose)

SelectMode ==
    \E actor \in Actors, id \in IdArgs, method \in Methods, mode \in ModeInputs :
        payment_mode_selection(actor, id, method, mode)

PayGcash ==
    \E actor \in Actors, id \in IdArgs, method \in Methods,
       reference \in ReferenceInputs :
        gcash_payment(actor, id, method, reference)

PayCounter ==
    \E actor \in Actors, id \in IdArgs, method \in Methods :
        counter_payment(actor, id, method)

Cancel ==
    \E actor \in Actors, id \in IdArgs : cancel_request(actor, id)

VerifyPayment ==
    \E actor \in Actors, id \in IdArgs, method \in Methods, now \in Times :
        admin_verify_payment(actor, id, method, now)

RejectPayment ==
    \E actor \in Actors, id \in IdArgs, method \in Methods :
        admin_reject_payment(actor, id, method)

UpdateClaim ==
    \E actor \in Actors, id \in IdArgs, method \in Methods,
       new_status \in ClaimInputs, now \in Times :
        admin_update_claim_status(actor, id, method, new_status, now)

DeleteCertificate ==
    \E actor \in Actors, id \in IdArgs, method \in Methods :
        admin_delete_certificate(actor, id, method)

Next ==
    \/ Submit
    \/ SelectMode
    \/ PayGcash
    \/ PayCounter
    \/ Cancel
    \/ VerifyPayment
    \/ RejectPayment
    \/ UpdateClaim
    \/ DeleteCertificate

Spec == Init /\ [][Next]_vars

----------------------------------------------------------------------------
\* Identifier generation over tables of several rows: submissions, owner
\* cancellations and staff deletions handled one at a time, over two years.

\* the sequence numbers of the rows stored at the start, oldest first: none,
\* the last number of four digits, or that number and the one issued after it
SeedNumbers == {<<>>, <<9999>>, <<9999, 10000>>}

\* the purpose the requests of this specification are made for
SeedPurpose == <<"e", "m", "p", "l", "o", "y", "m", "e", "n", "t">>

SeedRow(seed, i) ==
    NewRequest(i, "u1", FormatRequestId(2025, seed[i]), "barangay_clearance",
               SeedPurpose, 50)

InitIds ==
    \E seed \in SeedNumbers :
        /\ requests = {SeedRow(seed, i) : i \in 1..Len(seed)}
        /\ nextPk = Len(seed) + 1
        /\ year = 2025
        /\ resp = NoResponse
        /\ issued = <<>>
        /\ procs = <<>>
        /\ InitAccounts
        /\ reports = {}

\* the clock passes into the next year
NewYear ==
    /\ year < LastYear
    /\ year' = year + 1
    /\ UNCHANGED <<reports, requests, nextPk, resp, issued, procs, users, codes, sessions, clock>>

\* the submissions of one resident
SubmitNext ==
    /\ Len(issued) < MaxCreates
    /\ barangay_clearance_request("u1", "POST", SeedPurpose)

\* the owner cancels one of the stored requests
CancelStored ==
    \E r \in requests : cancel_request(r.user, r.request_id)

\* staff delete one of the stored requests
DeleteStored ==
    \E actor \in Staff, r \in requests :
        admin_delete_certificate(actor, r.request_id, "POST")

NextIds ==
    \/ SubmitNext
    \/ CancelStored
    \/ DeleteStored
    \/ NewYear

SpecIds == InitIds /\ [][NextIds]_vars

----------------------------------------------------------------------------
\* Interleaved creation: each submission in flight runs the queries of
\* barangay_clearance_request and CertificateRequest.save one at a time, and
\* the queries of other submissions fall in between.

Procs == {"p1", "p2"}

Idle == [pc |-> "idle", user |-> "none", purpose |-> <<>>, year |-> 0,
         attempt |-> 0, request_id |-> <<>>, result |-> "none"]

InFlight == {p \in Procs : procs[p].pc # "idle"}

\* the POST passes validation and save() starts: request_id is empty, the
\* year is read once
Begin(p, actor, purpose) ==
    /\ procs[p].pc = "idle"
    /\ Len(issued) + Cardinality(InFlight) < MaxCreates
    /\ ~PurposeRejected(purpose)
    /\ procs' = [procs EXCEPT ![p] =
                    [pc |-> "propose", user |-> actor, purpose |-> purpose,
                     year |-> year, attempt |-> 0, request_id |-> <<>>,
                     result |-> "none"]]
    /\ UNCHANGED <<reports, requests, nextPk, year, resp, issued, users, codes, sessions, clock>>

\* one pass of the loop up to the assignment of self.request_id
Propose(p) ==
    /\ procs[p].pc = "propose"
    /\ \E c \in Candidates(requests, procs[p].year, procs[p].attempt) :
           procs' = [procs EXCEPT ![p].request_id = c, ![p].pc = "check"]
    /\ UNCHANGED <<reports, requests, nextPk, year, resp, issued, users, codes, sessions, clock>>

\* a loop without the break: a candidate that is not stored is passed over
\* like one that is
CheckStoredNoBreak(p) ==
    /\ procs[p].pc = "check"
    /\ IF procs[p].attempt + 1 < max_attempts
       THEN procs' = [procs EXCEPT ![p].pc = "propose",
                                   ![p].attempt = procs[p].attempt + 1]
       ELSE \E f \in FallbackIds(procs[p].year) :
                procs' = [procs EXCEPT ![p].pc = "insert",
                                       ![p].attempt = procs[p].attempt + 1,
                                       ![p].request_id = f]
    /\ UNCHANGED <<reports, requests, nextPk, year, resp, issued, users, codes, sessions, clock>>

\* the exists() query: break, the next attempt, or the for-else fallback
CheckStored(p) ==
    /\ procs[p].pc = "check"
    /\ IF ~IdExists(requests, procs[p].request_id)
       THEN procs' = [procs EXCEPT ![p].pc = "insert"]
       ELSE IF procs[p].attempt + 1 < max_attempts
       THEN procs' = [procs EXCEPT ![p].pc = "propose",
                                   ![p].attempt = procs[p].attempt + 1]
       ELSE \E f \in FallbackIds(procs[p].year) :
                procs' = [procs EXCEPT ![p].pc = "insert",
                                       ![p].attempt = procs[p].attempt + 1,
                                       ![p].request_id = f]
    /\ UNCHANGED <<reports, requests, nextPk, year, resp, issued, users, codes, sessions, clock>>

\* super().save(): the INSERT, or the IntegrityError that ends the request
InsertRow(p) ==
    /\ procs[p].pc = "insert"
    /\ LET row == NewRequest(nextPk, procs[p].user, procs[p].request_id,
                             "barangay_clearance", procs[p].purpose, 50)
       IN IF InsertOk(requests, row)
          THEN /\ requests' = requests \cup {row}
               /\ nextPk' = nextPk + 1
               /\ issued' = Append(issued, row.request_id)
               /\ procs' = [procs EXCEPT ![p].pc = "idle",
                                         ![p].result = "created"]
          ELSE /\ procs' = [procs EXCEPT ![p].pc = "idle",
                                         ![p].result = "IntegrityError"]
               /\ UNCHANGED <<reports, requests, nextPk, issued>>
    /\ UNCHANGED <<reports, year, resp, users, codes, sessions, clock>>

InitConc ==
    /\ requests = {}
    /\ nextPk = 1
    /\ year = 2025
    /\ resp = NoResponse
    /\ issued = <<>>
    /\ procs = [p \in Procs |-> Idle]
    /\ InitAccounts
    /\ reports = {}

NextConc ==
    \/ \E p \in Procs, actor \in Residents, purpose \in Purposes :
           Begin(p, actor, purpose)
    \/ \E p \in Procs : Propose(p)
    \/ \E p \in Procs : CheckStored(p)
    \/ \E p \in Procs : InsertRow(p)

SpecConc == InitConc /\ [][NextConc]_vars

----------------------------------------------------------------------------
\* Accounts: registration, login, and the staff views that manage users.

\* the most accounts the user table holds
MaxUsers == 3

\* request.user: the username of the active user the session names, or
\* the anonymous user
RequestUser(b) ==
    LET found == {u \in users : u.id = sessions[b].user /\ u.is_active}
    IN IF found = {} THEN Anonymous ELSE (CHOOSE u \in found : TRUE).username

\* a response after the user table became `table`
StoreUsers(table, r) ==
    /\ users' = table
    /\ resp' = r
    /\ UNCHANGED <<reports, requests, nextPk, year, issued, procs, codes, sessions, clock>>

\* a response after the session of browser b became `session`
StoreSession(b, session, r) ==
    /\ sessions' = [sessions EXCEPT ![b] = session]
    /\ resp' = r
    /\ UNCHANGED <<reports, requests, nextPk, year, issued, procs, users, codes, clock>>

\* the user table with the row of u.id replaced by u
UpdateUser(table, u) == {IF x.id = u.id THEN u ELSE x : x \in table}

\* the primary key of the next row of a table whose rows are never deleted
NextUserId == Cardinality(users) + 1

\* request.POST.get("resident_confirmation") == "on"
ConfirmationTicked(field) == field = "on"

\* the row User.objects.create_user(...) stores for the form of register
Registered(username, email, password, field) ==
    UserRow(NextUserId, username, email, password, FALSE, FALSE,
            ConfirmationTicked(field))

register(b, method, username, email, password, field) ==
    LET view == "register"
    IN IF method # "POST" THEN Reply(Render(view, "none"))
       ELSE IF \E u \in users : u.email = email THEN Reply(Render(view, "error"))
       ELSE IF \E u \in users : u.username = username
       THEN Reply(Render(view, "error"))
       ELSE StoreUsers(users \cup {Registered(username, email, password, field)},
                       Redirect(view, "success"))

\* authenticate(request, username, password): the active users of that
\* name whose password matches
authenticate(username, password) ==
    {u \in users : /\ u.username = username
                   /\ u.password = PasswordHash(password)
                   /\ u.is_active}

\* auth_login(request, user): the session of another user is flushed, the
\* session of the same user or of nobody is kept
LoggedInSession(session, u) ==
    IF session.user \notin {0, u.id}
    THEN [NoSession EXCEPT !.user = u.id]
    ELSE [session EXCEPT !.user = u.id]

\* if user.resident_confirmation
LoginAllowed(u) == u.resident_confirmation

login(b, method, username, password) ==
    LET view == "login"
        found == authenticate(username, password)
    IN IF method # "POST" THEN Reply(Render(view, "none"))
       ELSE IF found = {} THEN Reply(Render(view, "error"))
       ELSE LET u == CHOOSE x \in found : TRUE
            IN IF LoginAllowed(u)
               THEN StoreSession(b, LoggedInSession(sessions[b], u),
                                 Redirect(view, "none"))
               ELSE Reply(Render(view, "warning"))

\* auth_logout(request): the session is flushed
logout_confirm(b, method) ==
    LET view == "logout_confirm"
    IN IF RequestUser(b) = Anonymous THEN Reply(ToLogin(view))
       ELSE IF method # "POST" THEN Reply(Render(view, "none"))
       ELSE StoreSession(b, NoSession, Redirect(view, "success"))

\* the rows get_object_or_404(User, id=user_id, is_staff=False) matches
NonStaffById(user_id) == {u \in users : u.id = user_id /\ ~u.is_staff}

\* the body shared by admin_verify_user, admin_deactivate_user and
\* admin_activate_user: the decorators, the method test, the lookup and
\* the save of the target with its flag `field` set to `value`
ManageUser(view, b, method, user_id, field, value) ==
    LET found == NonStaffById(user_id)
    IN IF RequestUser(b) = Anonymous THEN Reply(ToLogin(view))
       ELSE IF ~is_admin(RequestUser(b)) THEN Reply(ToPersonalInfo(view))
       ELSE IF method # "POST" THEN Reply(Redirect(view, "none"))
       ELSE IF found = {} THEN Reply(NotFound(view))
       ELSE LET target_user == CHOOSE u \in found : TRUE
            IN StoreUsers(UpdateUser(users, [target_user EXCEPT ![field] = value]),
                          Redirect(view, "success"))

admin_verify_user(b, method, user_id) ==
    ManageUser("admin_verify_user", b, method, user_id,
               "resident_confirmation", TRUE)

admin_deactivate_user(b, method, user_id) ==
    ManageUser("admin_deactivate_user", b, method, user_id, "is_active", FALSE)

admin_activate_user(b, method, user_id) ==
    ManageUser("admin_activate_user", b, method, user_id, "is_active", TRUE)

\* a guard that forgets to leave the target out of the count
remaining_admins_with_target(target_user) == {u \in users : u.is_superuser}

\* User.objects.filter(is_superuser=True).exclude(pk=target_user.pk)
remaining_admins(target_user) ==
    {u \in users : u.is_superuser /\ u.id # target_user.id}

\* the redirect with "You cannot remove the last admin from admin role."
LastAdminRefused(view) == [view |-> view, status |-> "302", level |-> "last_admin"]

\* the role flags admin_change_user_type gives for an accepted user_type
RoleChanged(u, new_type) ==
    IF new_type = "admin"
    THEN [u EXCEPT !.is_superuser = TRUE, !.is_staff = FALSE]
    ELSE [u EXCEPT !.is_superuser = FALSE, !.is_staff = FALSE]

\* user_id and new_type are the POST fields user_id and user_type
admin_change_user_type(b, method, user_id, new_type) ==
    LET view == "admin_change_user_type"
    IN IF RequestUser(b) = Anonymous THEN Reply(ToLogin(view))
       ELSE IF ~is_admin(RequestUser(b)) THEN Reply(Redirect(view, "error"))
       ELSE IF method # "POST" THEN Reply(Redirect(view, "none"))
       ELSE IF user_id = NoneStr \/ Len(user_id) = 0
       THEN Reply(Redirect(view, "error"))
       ELSE IF ~IsInt(user_id) THEN Reply(Redirect(view, "error"))
       ELSE LET found == {u \in users : u.id = ParseInt(user_id)}
            IN IF found = {} THEN Reply(NotFound(view))
               ELSE IF new_type \notin {"resident", "admin"}
               THEN Reply(Redirect(view, "error"))
               ELSE LET target_user == CHOOSE u \in found : TRUE
                    IN IF /\ new_type = "resident"
                          /\ target_user.is_superuser
                          /\ remaining_admins(target_user) = {}
                       THEN Reply(LastAdminRefused(view))
                       ELSE StoreUsers(
                                UpdateUser(users, RoleChanged(target_user, new_type)),
                                Redirect(view, "success"))

\* The user table under registrations, logins and staff actions, one
\* request at a time.

\* the accounts at the start: the first admin, made by createsuperuser, and
\* one verified resident
InitUsers ==
    /\ requests = {}
    /\ nextPk = 1
    /\ year = 2025
    /\ resp = NoResponse
    /\ issued = <<>>
    /\ procs = <<>>
    /\ users = {UserRow(1, "admin", "admin@x", FirstPassword, TRUE, TRUE, TRUE),
                UserRow(2, "u1", "u1@x", FirstPassword, FALSE, FALSE, TRUE)}
    /\ codes = {}
    /\ sessions = [b \in Browsers |-> NoSession]
    /\ clock = 0
    /\ reports = {}

\* the usernames and e-mail addresses forms are filled with
Usernames == {"u1", "u2"}
Emails == {"u1@x", "u2@x"}

\* the resident_confirmation field of the registration form
ConfirmationFields == {"on", "None"}

\* a password nobody was given
WrongPassword == <<"l", "e", "t", "m", "e", "i", "n", "1">>

\* the user_id values of URLs and forms
UserIds == 1..MaxUsers
UserIdFields == {Str(i) : i \in UserIds} \cup {NoneStr, <<"x">>}
UserTypeFields == {"resident", "admin", "staff"}

Register ==
    /\ Cardinality(users) < MaxUsers
    /\ \E b \in Browsers, method \in Methods, username \in Usernames,
          email \in Emails, field \in ConfirmationFields :
           register(b, method, username, email, FirstPassword, field)

Login ==
    \E b \in Browsers, method \in Methods,
       username \in Usernames \cup {"admin"},
       password \in {FirstPassword, WrongPassword} :
        login(b, method, username, password)

Logout ==
    \E b \in Browsers, method \in Methods : logout_confirm(b, method)

VerifyUser ==
    \E b \in Browsers, method \in Methods, user_id \in UserIds :
        admin_verify_user(b, method, user_id)

DeactivateUser ==
    \E b \in Browsers, method \in Methods, user_id \in UserIds :
        admin_deactivate_user(b, method, user_id)

ActivateUser ==
    \E b \in Browsers, method \in Methods, user_id \in UserIds :
        admin_activate_user(b, method, user_id)

ChangeUserType ==
    \E b \in Browsers, method \in Methods, user_id \in UserIdFields,
       new_type \in UserTypeFields :
        admin_change_user_type(b, method, user_id, new_type)

NextUsers ==
    \/ Register
    \/ Login
    \/ Logout
    \/ VerifyUser
    \/ DeactivateUser
    \/ ActivateUser
    \/ ChangeUserType

SpecUsers == InitUsers /\ [][NextUsers]_vars

----------------------------------------------------------------------------
\* Accounts: the password reset by a code sent by e-mail.

\* the most rows the PasswordResetCode table holds
MaxCodes == 2

\* the instants the clock shows, in seconds: the start, and 300 and 301
\* seconds after it
ClockTimes == {0, 300, 301}

\* the validity window of a code, in minutes
validity_minutes == 5

\* timedelta(minutes=m), in seconds
timedelta_minutes(m) == m * 60

\* a validity test that excludes the end of the window
is_valid_before_end(code, now_s) ==
    /\ ~code.is_used
    /\ now_s - code.created_at < timedelta_minutes(validity_minutes)

\* PasswordResetCode.is_valid() at the time now_s: not used, and created at
\* most the validity window ago
is_valid(code, now_s) ==
    /\ ~code.is_used
    /\ now_s - code.created_at <= timedelta_minutes(validity_minutes)

\* the six-digit codes generate_code may draw
CodeValues == {<<"4", "8", "3", "9", "2", "0">>, <<"1", "1", "1", "1", "1", "1">>}

\* the primary key of the next PasswordResetCode row; rows are never deleted
NextCodeId == Cardinality(codes) + 1

\* the rows PasswordResetCode.generate_code(user) may create: a fresh code,
\* one that no stored unused code of the user holds, with the current time;
\* the codes issued before stay as they are
generate_code(u) ==
    {[id |-> NextCodeId, user |-> u.id, code |-> c,
      created_at |-> clock, is_used |-> FALSE] :
        c \in {c \in CodeValues :
                 \A k \in codes : (k.user = u.id /\ ~k.is_used) => k.code # c}}

\* the outcomes of send_mail(..., fail_silently=False)
MailOutcomes == {"sent", "failed"}

\* an issue that marks the user's earlier codes used
StoreCodeSuperseding(code, b, session, r) ==
    /\ codes' = {IF k.user = code.user THEN [k EXCEPT !.is_used = TRUE] ELSE k :
                    k \in codes} \cup {code}
    /\ sessions' = [sessions EXCEPT ![b] = session]
    /\ resp' = r
    /\ UNCHANGED <<reports, requests, nextPk, year, issued, procs, users, clock>>

\* a response after a code was stored and the session of b became `session`
StoreCode(code, b, session, r) ==
    /\ codes' = codes \cup {code}
    /\ sessions' = [sessions EXCEPT ![b] = session]
    /\ resp' = r
    /\ UNCHANGED <<reports, requests, nextPk, year, issued, procs, users, clock>>

\* messages.success("If an account exists with ..., a verification code has
\* been sent.") and redirect('accounts:login')
AccountHidden(view) ==
    [view |-> view, status |-> "302", level |-> "success_if_exists",
     to |-> <<"accounts:login">>]

\* messages.success("Verification code sent to ...") and
\* redirect('accounts:verify_code', user_id=user.id)
CodeSent(view, user) ==
    [view |-> view, status |-> "302", level |-> "success",
     to |-> <<"accounts:verify_code", user.id>>]

forgot_password(b, method, email, mail) ==
    LET view == "forgot_password"
        found == {u \in users : u.email = email}
    IN IF method # "POST" THEN Reply(Render(view, "none"))
       ELSE IF found = {} THEN Reply(AccountHidden(view))
       ELSE LET user == CHOOSE u \in found : TRUE
            IN \E reset_code \in generate_code(user) :
                   IF mail = "sent"
                   THEN StoreCode(reset_code, b,
                                  [sessions[b] EXCEPT
                                      !.verification_code = reset_code.code],
                                  CodeSent(view, user))
                   ELSE StoreCode(reset_code, b, sessions[b],
                                  Render(view, "error"))

resend_code(b, user_id, mail) ==
    LET view == "resend_code"
        found == {u \in users : u.id = user_id}
    IN IF found = {} THEN Reply(NotFound(view))
       ELSE LET user == CHOOSE u \in found : TRUE
            IN \E reset_code \in generate_code(user) :
                   IF mail = "sent"
                   THEN StoreCode(reset_code, b,
                                  [sessions[b] EXCEPT
                                      !.verification_code = reset_code.code],
                                  Redirect(view, "success"))
                   ELSE StoreCode(reset_code, b, sessions[b],
                                  Redirect(view, "error"))

\* the rows PasswordResetCode.objects.get(user=user, code=entered_code,
\* is_used=False) looks among
MatchingCodes(user_id, entered_code) ==
    {k \in codes : k.user = user_id /\ k.code = entered_code /\ ~k.is_used}

\* the redirect with "Code has expired. Please request a new code."
CodeExpired(view) == [view |-> view, status |-> "302", level |-> "expired"]

\* a check of the code that does not look at its age
CodeAcceptedWhateverAge(reset_code) == TRUE

\* if reset_code.is_valid()
CodeAccepted(reset_code) == is_valid(reset_code, clock)

\* request.session['reset_code_id'] = reset_code.id, and verification_code
\* deleted from the session
Bound(session, reset_code) ==
    [session EXCEPT !.reset_code_id = reset_code.id,
                    !.verification_code = NoneStr]

verify_code(b, method, user_id, entered_code) ==
    LET view == "verify_code"
        found == MatchingCodes(user_id, entered_code)
    IN IF \A u \in users : u.id # user_id THEN Reply(NotFound(view))
       ELSE IF method # "POST" THEN Reply(Render(view, "none"))
       ELSE IF found = {} THEN Reply(Render(view, "error"))
       ELSE IF Cardinality(found) > 1 THEN Reply(ServerError(view))
       ELSE LET reset_code == CHOOSE k \in found : TRUE
            IN IF CodeAccepted(reset_code)
               THEN StoreSession(b, Bound(sessions[b], reset_code),
                                 Redirect(view, "success"))
               ELSE Reply(CodeExpired(view))

\* the redirects to forgot_password with the error messages "No active
\* password reset session.", "Invalid reset session." and "Reset session
\* expired."
NoResetSession(view) == [view |-> view, status |-> "302", level |-> "no_session"]
InvalidSession(view) == [view |-> view, status |-> "302", level |-> "invalid_session"]
SessionExpired(view) == [view |-> view, status |-> "302", level |-> "session_expired"]

\* a session check that keeps the binding of a code that does not validate
UnboundNever(session) == session

\* del request.session['reset_code_id']
Unbound(session) == [session EXCEPT !.reset_code_id = 0]

\* a password change that leaves the code unused
ConsumedNever(reset_code) == reset_code

\* reset_code.is_used = True
Consumed(reset_code) == [reset_code EXCEPT !.is_used = TRUE]

\* the successful password change: the user's password, the code and the
\* session are written in the one request
PasswordChanged(b, reset_code, new_password, r) ==
    /\ users' = {IF u.id = reset_code.user
                 THEN [u EXCEPT !.password = PasswordHash(new_password)]
                 ELSE u : u \in users}
    /\ codes' = {IF k.id = reset_code.id THEN Consumed(k) ELSE k : k \in codes}
    /\ sessions' = [sessions EXCEPT ![b] = Unbound(sessions[b])]
    /\ resp' = r
    /\ UNCHANGED <<reports, requests, nextPk, year, issued, procs, clock>>

reset_password(b, method, new_password, confirm_password) ==
    LET view == "reset_password"
        found == {k \in codes : k.id = sessions[b].reset_code_id /\ ~k.is_used}
    IN IF sessions[b].reset_code_id = 0 THEN Reply(NoResetSession(view))
       ELSE IF found = {}
       THEN StoreSession(b, Unbound(sessions[b]), InvalidSession(view))
       ELSE LET reset_code == CHOOSE k \in found : TRUE
            IN IF ~is_valid(reset_code, clock)
               THEN StoreSession(b, Unbound(sessions[b]), SessionExpired(view))
               ELSE IF method # "POST" THEN Reply(Render(view, "none"))
               ELSE IF new_password # confirm_password
               THEN Reply(Render(view, "error"))
               ELSE IF new_password = NoneStr THEN Reply(ServerError(view))
               ELSE IF Len(new_password) < 8 THEN Reply(Render(view, "error"))
               ELSE PasswordChanged(b, reset_code, new_password,
                                    Redirect(view, "success"))

\* The reset of a password, one request at a time, while the clock runs.

InitReset ==
    /\ requests = {}
    /\ nextPk = 1
    /\ year = 2025
    /\ resp = NoResponse
    /\ issued = <<>>
    /\ procs = <<>>
    /\ InitAccounts
    /\ reports = {}

\* the e-mail addresses, user ids, codes and passwords the forms and URLs
\* of the reset are filled with
ResetEmails == {"u1@x", "nobody@x"}
ResendUserIds == {2, 9}
ResetUserIds == {2, 3, 9}
EnteredCodes == CodeValues
NewPassword == <<"n", "e", "w", "p", "a", "s", "s", "1">>
ShortPassword == <<"s", "h", "o", "r", "t">>
PasswordFields == {NewPassword, ShortPassword, NoneStr}
\* new_password and confirm_password
PasswordForms == {<<NewPassword, NewPassword>>, <<NewPassword, ShortPassword>>,
                  <<ShortPassword, ShortPassword>>, <<NoneStr, NoneStr>>}
\* the browser the codes are asked for in
IssuingBrowsers == {"b1"}

\* time passes
Tick ==
    /\ \E t \in ClockTimes : t > clock /\ clock' = t
    /\ UNCHANGED <<reports, requests, nextPk, year, resp, issued, procs, users, codes, sessions>>

ForgotPassword ==
    /\ Cardinality(codes) < MaxCodes
    /\ \E b \in IssuingBrowsers :
           \/ forgot_password(b, "GET", "u1@x", "sent")
           \/ \E email \in ResetEmails, mail \in MailOutcomes :
                  forgot_password(b, "POST", email, mail)

ResendCode ==
    /\ Cardinality(codes) < MaxCodes
    /\ \E b \in IssuingBrowsers, user_id \in ResendUserIds, mail \in MailOutcomes :
           resend_code(b, user_id, mail)

VerifyCode ==
    \E b \in Browsers, user_id \in ResetUserIds :
        \/ verify_code(b, "GET", user_id, NoneStr)
        \/ \E entered_code \in EnteredCodes :
               verify_code(b, "POST", user_id, entered_code)

ResetPassword ==
    \E b \in Browsers :
        \/ reset_password(b, "GET", NoneStr, NoneStr)
        \/ \E form \in PasswordForms : reset_password(b, "POST", form[1], form[2])

NextReset ==
    \/ ForgotPassword
    \/ ResendCode
    \/ VerifyCode
    \/ ResetPassword
    \/ Tick

SpecReset == InitReset /\ [][NextReset]_vars

----------------------------------------------------------------------------
\* The five request forms, and the later handling of the request a form
\* stored: one stored request at a time, as in Spec.

\* request.FILES.get('proof_photo'): no file, a PNG of exactly 5 MB, a JPEG
\* declared in capitals of one byte, a JPEG of 5 MB and one byte, and a GIF
ProofPhotos == {
    <<>>,
    <<[content_type |-> <<"i", "m", "a", "g", "e", "/", "p", "n", "g">>,
       size |-> 5242880]>>,
    <<[content_type |-> <<"I", "M", "A", "G", "E", "/", "J", "P", "E", "G">>,
       size |-> 1]>>,
    <<[content_type |-> <<"i", "m", "a", "g", "e", "/", "j", "p", "e", "g">>,
       size |-> 5242881]>>,
    <<[content_type |-> <<"i", "m", "a", "g", "e", "/", "g", "i", "f">>,
       size |-> 1]>>}

\* what upload_to_supabase returns: None on failure, or the public URL
UploadOutcomes == {NoneStr, <<"h", "t", "t", "p", "s", ":", "/", "/", "x">>}

\* the business fields of request.POST, all filled with the count given
BusinessForm(employees_count) ==
    [business_name |-> <<"s", "h", "o", "p">>, business_type |-> <<"s", "o", "l", "e">>,
     business_nature |-> <<"f", "o", "o", "d">>,
     business_address |-> <<"l", "o", "t", " ", "1">>,
     employees_count |-> employees_count]

\* the forms sent: counts 0, 12 between blanks, -1, a word and none, and
\* forms without a name and with an empty address
BusinessForms ==
    {BusinessForm(c) : c \in {<<"0">>, <<" ", "1", "2", " ">>, <<"-", "1">>,
                              <<"t", "w", "o">>, <<>>, NoneStr}}
    \cup {[BusinessForm(<<"3">>) EXCEPT !.business_name = NoneStr],
          [BusinessForm(<<"3">>) EXCEPT !.business_address = <<>>]}

\* the senders of the forms
FormActors == {"u1", Anonymous}

\* the reference the owner pays with
PaidReference == <<"1", "2", "3", "4", "5", "6", "7", "8", "9", "0">>

\* a form is sent when no request is stored
FormOpen == requests = {} /\ nextPk <= MaxLives

NextForms ==
    \/ /\ FormOpen
       /\ \E actor \in FormActors, method \in Methods, purpose \in Purposes :
              barangay_clearance_request(actor, method, purpose)
    \/ /\ FormOpen
       /\ \E actor \in FormActors, method \in Methods, purpose \in Purposes :
              brgy_residency_cert(actor, method, purpose)
    \/ /\ FormOpen
       /\ \E actor \in FormActors, method \in Methods, purpose \in Purposes :
              brgy_goodmoral_character(actor, method, purpose)
    \/ /\ FormOpen
       /\ \E actor \in FormActors, method \in Methods, purpose \in Purposes,
              proof_photo \in ProofPhotos, upload \in UploadOutcomes :
              brgy_indigency_cert(actor, method, purpose, proof_photo, upload)
    \/ /\ FormOpen
       /\ \E actor \in FormActors, method \in Methods, purpose \in Purposes,
              form \in BusinessForms :
              brgy_business_cert(actor, method, purpose, form)
    \/ \E r \in requests, mode \in {"gcash", "counter"} :
           payment_mode_selection(r.user, r.request_id, "POST", mode)
    \/ \E r \in requests : gcash_payment(r.user, r.request_id, "POST", PaidReference)
    \/ \E r \in requests : counter_payment(r.user, r.request_id, "POST")
    \/ \E r \in requests : cancel_request(r.user, r.request_id)
    \/ \E r \in requests, now \in Times :
           admin_verify_payment("admin", r.request_id, "POST", now)
    \/ \E r \in requests : admin_reject_payment("admin", r.request_id, "POST")
    \/ \E r \in requests, new_status \in {"ready", "claimed"}, now \in Times :
           admin_update_claim_status("admin", r.request_id, "POST", new_status, now)
    \/ \E r \in requests : admin_delete_certificate("admin", r.request_id, "POST")

SpecForms == Init /\ [][NextForms]_vars

----------------------------------------------------------------------------
\* Incident reports: filing by residents and handling by staff, one
\* request at a time.

\* a report of the table at the start
SeedReport(i, user) ==
    [report_id |-> i, user |-> user, incident_type |-> "Theft",
     place |-> <<"p", "l", "a", "z", "a">>,
     message |-> <<"a", " ", "b", "i", "k", "e", " ", "w", "a", "s", " ",
                   "t", "a", "k", "e", "n", " ", "h", "e", "r", "e">>,
     status |-> "Pending"]

\* the IncidentReport rows the storage holds at the start: none, one report
\* of u1, or one of u1 and one of u2
SeedReports ==
    {{},
     {SeedReport(<<"R", "P", "T", "-", "0", "A", "1", "B", "2", "C", "3", "D">>, "u1")},
     {SeedReport(<<"R", "P", "T", "-", "0", "A", "1", "B", "2", "C", "3", "D">>, "u1"),
      SeedReport(<<"R", "P", "T", "-", "F", "F", "0", "0", "F", "F", "0", "0">>, "u2")}}

InitReports ==
    /\ requests = {}
    /\ nextPk = 1
    /\ year = 2025
    /\ resp = NoResponse
    /\ issued = <<>>
    /\ procs = <<>>
    /\ InitAccounts
    /\ reports \in SeedReports

\* request.POST.get('report_type'): absent, a type of the list, and another
ReportTypeInputs == {"None", "Theft", "Other", "Arson"}

\* request.POST.get('place'): absent, 4 characters between blanks, and 5
PlaceInputs == {NoneStr,
                <<" ", "p", "a", "r", "k", " ">>,
                <<"p", "l", "a", "z", "a">>}

\* request.POST.get('message'): absent, 19 characters between blanks, and
\* 20 characters
MessageInputs ==
    {NoneStr,
     <<" ", "m", "y", " ", "b", "i", "k", "e", " ", "w", "a", "s", " ",
       "s", "t", "o", "l", "e", "n", "!", " ">>,
     <<"m", "y", " ", "b", "i", "k", "e", " ", "w", "a", "s", " ",
       "s", "t", "o", "l", "e", "n", "!", "!", "!">>}

\* request.POST.get('status')
StatusInputs == valid_statuses \cup {"Closed", "None"}

\* a report_id of the URL that no row has
UnknownReportId == <<"R", "P", "T", "-", "0">>

\* the report_id values a URL is tried with
ReportIdArgs == {r.report_id : r \in reports} \cup {UnknownReportId}

NextReports ==
    \/ \E actor \in {"u1", Anonymous}, method \in Methods,
          report_type \in ReportTypeInputs, place \in PlaceInputs,
          message \in MessageInputs :
           file_report(actor, method, report_type, place, message)
    \/ \E actor \in Actors, id \in ReportIdArgs : report_detail(actor, id)
    \/ \E actor \in Actors, id \in ReportIdArgs, method \in Methods,
          new_status \in StatusInputs :
           admin_update_report_status(actor, id, method, new_status)
    \/ \E actor \in Actors, id \in ReportIdArgs, method \in Methods :
           admin_delete_report(actor, id, method)

SpecReports == InitReports /\ [][NextReports]_vars

----------------------------------------------------------------------------
\* The self-service views called by every user on every stored record, the
\* owner's and the others'.

\* the users logged in
LoggedIn == Residents \cup Staff

NextOwn ==
    \/ /\ FormOpen
       /\ \E actor \in Residents :
              barangay_clearance_request(actor, "POST", SeedPurpose)
    \/ \E actor \in LoggedIn, r \in requests : request_detail(actor, r.request_id)
    \/ \E actor \in LoggedIn, r \in requests, method \in Methods, mode \in ModeInputs :
           payment_mode_selection(actor, r.request_id, method, mode)
    \/ \E actor \in LoggedIn, r \in requests, method \in Methods,
          reference \in ReferenceInputs :
           gcash_payment(actor, r.request_id, method, reference)
    \/ \E actor \in LoggedIn, r \in requests, method \in Methods :
           counter_payment(actor, r.request_id, method)
    \/ \E actor \in LoggedIn, r \in requests : cancel_request(actor, r.request_id)
    \/ \E actor \in LoggedIn, r \in reports : report_detail(actor, r.report_id)

SpecOwn == InitReports /\ [][NextOwn]_vars

----------------------------------------------------------------------------
\* Every staff view called from every browser, by staff, by residents and
\* by nobody, while roles are changed: one request at a time.

\* the accounts at the start: the first admin, a verified resident, and a
\* resident who is not verified yet
InitStaff ==
    /\ requests = {}
    /\ nextPk = 1
    /\ year = 2025
    /\ resp = NoResponse
    /\ issued = <<>>
    /\ procs = <<>>
    /\ users = {UserRow(1, "admin", "admin@x", FirstPassword, TRUE, TRUE, TRUE),
                UserRow(2, "u1", "u1@x", FirstPassword, FALSE, FALSE, TRUE),
                UserRow(3, "u2", "u2@x", FirstPassword, FALSE, FALSE, FALSE)}
    /\ codes = {}
    /\ sessions = [b \in Browsers |-> NoSession]
    /\ clock = 0
    /\ reports = {SeedReport(<<"R", "P", "T", "-", "0", "A", "1", "B", "2", "C", "3", "D">>, "u1")}

\* the account each browser logs in to
BrowserAccount(b) == IF b = "b1" THEN "admin" ELSE "u1"

\* the user_id fields of the role form: the first admin and u1; the views
\* that verify, deactivate and activate are called on u2, whose id is 3
RoleTargets == {<<"1">>, <<"2">>}

StaffVerifyPayment(b) ==
    \E r \in requests, method \in Methods, now \in Times :
        admin_verify_payment(RequestUser(b), r.request_id, method, now)

StaffRejectPayment(b) ==
    \E r \in requests, method \in Methods :
        admin_reject_payment(RequestUser(b), r.request_id, method)

StaffUpdateClaim(b) ==
    \E r \in requests, now \in Times :
        admin_update_claim_status(RequestUser(b), r.request_id, "POST", "ready", now)

StaffDeleteCertificate(b) ==
    \E r \in requests :
        admin_delete_certificate(RequestUser(b), r.request_id, "POST")

StaffUpdateReport(b) ==
    \E r \in reports :
        admin_update_report_status(RequestUser(b), r.report_id, "POST", "Resolved")

StaffDeleteReport(b) ==
    \E r \in reports : admin_delete_report(RequestUser(b), r.report_id, "POST")

StaffVerifyUser(b) == admin_verify_user(b, "POST", 3)

StaffDeactivateUser(b) == admin_deactivate_user(b, "POST", 3)

StaffActivateUser(b) == admin_activate_user(b, "POST", 3)

StaffChangeUserType(b) ==
    \E user_id \in RoleTargets, new_type \in {"resident", "admin"} :
        admin_change_user_type(b, "POST", user_id, new_type)

\* a request to any staff view from browser b
StaffRequest(b) ==
    \/ StaffVerifyPayment(b)
    \/ StaffRejectPayment(b)
    \/ StaffUpdateClaim(b)
    \/ StaffDeleteCertificate(b)
    \/ StaffUpdateReport(b)
    \/ StaffDeleteReport(b)
    \/ StaffVerifyUser(b)
    \/ StaffDeactivateUser(b)
    \/ StaffActivateUser(b)
    \/ StaffChangeUserType(b)

NextStaff ==
    \/ \E b \in Browsers : login(b, "POST", BrowserAccount(b), FirstPassword)
    \/ /\ nextPk = 1
       /\ \E b \in Browsers :
              barangay_clearance_request(RequestUser(b), "POST", SeedPurpose)
    \/ \E b \in Browsers, r \in requests :
           payment_mode_selection(RequestUser(b), r.request_id, "POST", "counter")
    \/ \E b \in Browsers, r \in requests :
           counter_payment(RequestUser(b), r.request_id, "POST")
    \/ \E b \in Browsers : StaffVerifyPayment(b)
    \/ \E b \in Browsers : StaffRejectPayment(b)
    \/ \E b \in Browsers : StaffUpdateClaim(b)
    \/ \E b \in Browsers : StaffDeleteCertificate(b)
    \/ \E b \in Browsers : StaffUpdateReport(b)
    \/ \E b \in Browsers : StaffDeleteReport(b)
    \/ \E b \in Browsers : StaffVerifyUser(b)
    \/ \E b \in Browsers : StaffDeactivateUser(b)
    \/ \E b \in Browsers : StaffActivateUser(b)
    \/ \E b \in Browsers : StaffChangeUserType(b)

SpecStaff == InitStaff /\ [][NextStaff]_vars

----------------------------------------------------------------------------
\* Interleaved payment requests on one stored row: each request in flight
\* runs its SELECT and its UPDATE as separate queries (no view runs in a
\* transaction or locks the row), and the queries of the other request fall
\* in between.

\* a request that has not arrived
NoRequest == [pc |-> "idle", view |-> "none", row |-> <<>>, result |-> "none"]

\* the row the storage holds at the start: a request of u1 whose GCash
\* reference waits for verification, or one whose mode is chosen only
PendingRow ==
    [NewRequest(1, "u1", FormatRequestId(2025, 1), "barangay_clearance",
                SeedPurpose, 50)
        EXCEPT !.payment_mode = "gcash",
               !.payment_reference = <<"1", "2", "3", "4", "5", "6", "7", "8", "9", "0">>,
               !.payment_status = "pending"]

UnpaidRow ==
    [NewRequest(1, "u1", FormatRequestId(2025, 1), "barangay_clearance",
                SeedPurpose, 50)
        EXCEPT !.payment_mode = "gcash"]

InitPay ==
    /\ requests \in {{PendingRow}, {UnpaidRow}}
    /\ nextPk = 2
    /\ year = 2025
    /\ resp = NoResponse
    /\ issued = <<>>
    /\ procs = [p \in Procs |-> NoRequest]
    /\ InitAccounts
    /\ reports = {}

\* the views that staff call and the views the owner calls
StaffPaymentViews == {"admin_verify_payment", "admin_reject_payment"}
OwnerPaymentViews == {"payment_mode_selection", "gcash_payment", "counter_payment"}

\* the instant timezone.now() returns to a verification
PayTimes == {"t1", "t2"}

\* the instance request p holds
Instance(p) == procs[p].row[1]

\* request p ends with `result`
Ended(p, result) ==
    procs' = [procs EXCEPT ![p].pc = "done", ![p].result = result]

\* request p ends with `result` after instance.save() of `row`: the UPDATE
\* of every column by primary key
SavedAll(p, row, result) ==
    /\ requests' = Update(requests, row)
    /\ procs' = [procs EXCEPT ![p].pc = "done", ![p].row = <<row>>,
                              ![p].result = result]

\* the table after save(update_fields=fields) of `row`: the UPDATE of those
\* columns by primary key
UpdateFields(table, row, fields) ==
    {IF r.pk = row.pk
     THEN [f \in DOMAIN r |-> IF f \in fields THEN row[f] ELSE r[f]]
     ELSE r : r \in table}

\* the decorators and get_object_or_404 of a POST to `view` by `actor`
GetObject(p, view, actor, id) ==
    LET found == IF view \in StaffPaymentViews THEN ById(requests, id)
                 ELSE OwnedBy(requests, id, actor)
    IN /\ procs[p].pc = "idle"
       /\ IF actor = Anonymous
          THEN procs' = [procs EXCEPT ![p] = [NoRequest EXCEPT !.pc = "done", !.view = view, !.result = "login"]]
          ELSE IF view \in StaffPaymentViews /\ ~is_admin(actor)
          THEN procs' = [procs EXCEPT ![p] = [NoRequest EXCEPT !.pc = "done", !.view = view, !.result = "denied"]]
          ELSE IF found = {}
          THEN procs' = [procs EXCEPT ![p] = [NoRequest EXCEPT !.pc = "done", !.view = view, !.result = "404"]]
          ELSE procs' = [procs EXCEPT ![p] =
                            [pc |-> "loaded", view |-> view,
                             row |-> <<CHOOSE r \in found : TRUE>>,
                             result |-> "none"]]
       /\ UNCHANGED <<reports, requests, nextPk, year, resp, issued, users, codes, sessions, clock>>

\* admin_verify_payment from the test of payment_status on
VerifyPaymentSave(p, now) ==
    /\ procs[p].pc = "loaded"
    /\ procs[p].view = "admin_verify_payment"
    /\ IF Verifiable(Instance(p))
       THEN SavedAll(p, PaymentVerified(Instance(p), now), "success")
       ELSE Ended(p, "error") /\ UNCHANGED requests
    /\ UNCHANGED <<reports, nextPk, year, resp, issued, users, codes, sessions, clock>>

\* admin_reject_payment from the test of payment_status on
RejectPaymentSave(p) ==
    /\ procs[p].pc = "loaded"
    /\ procs[p].view = "admin_reject_payment"
    /\ IF Rejectable(Instance(p))
       THEN SavedAll(p, PaymentRejected(Instance(p)), "success")
       ELSE Ended(p, "error") /\ UNCHANGED requests
    /\ UNCHANGED <<reports, nextPk, year, resp, issued, users, codes, sessions, clock>>

\* payment_mode_selection from the test of payment_status on
ModeSelectionSave(p, mode) ==
    /\ procs[p].pc = "loaded"
    /\ procs[p].view = "payment_mode_selection"
    /\ IF ModeSelectionClosed(Instance(p))
       THEN Ended(p, "info") /\ UNCHANGED requests
       ELSE IF mode \notin {"gcash", "counter"}
       THEN Ended(p, "error") /\ UNCHANGED requests
       ELSE SavedAll(p, [Instance(p) EXCEPT !.payment_mode = mode], "none")
    /\ UNCHANGED <<reports, nextPk, year, resp, issued, users, codes, sessions, clock>>

\* gcash_payment from the test of payment_status on
GcashPaymentSave(p, reference_input) ==
    /\ procs[p].pc = "loaded"
    /\ procs[p].view = "gcash_payment"
    /\ LET reference_number == Strip(reference_input)
       IN IF PaymentClosed(Instance(p))
          THEN Ended(p, "info") /\ UNCHANGED requests
          ELSE IF WrongMode(Instance(p)) \/ ~ReferenceAccepted(reference_number)
          THEN Ended(p, "error") /\ UNCHANGED requests
          ELSE SavedAll(p, [Instance(p) EXCEPT
                               !.payment_reference = reference_number,
                               !.payment_status = "pending"], "success")
    /\ UNCHANGED <<reports, nextPk, year, resp, issued, users, codes, sessions, clock>>

\* counter_payment from the test of payment_status to
\* save(update_fields=['payment_mode'])
CounterPaymentMode(p) ==
    /\ procs[p].pc = "loaded"
    /\ procs[p].view = "counter_payment"
    /\ IF PaymentClosed(Instance(p))
       THEN Ended(p, "info") /\ UNCHANGED requests
       ELSE LET moded == [Instance(p) EXCEPT !.payment_mode = "counter"]
            IN /\ requests' = IF Instance(p).payment_mode # "counter"
                              THEN UpdateFields(requests, moded, {"payment_mode"})
                              ELSE requests
               /\ procs' = [procs EXCEPT ![p].pc = "moded", ![p].row = <<moded>>]
    /\ UNCHANGED <<reports, nextPk, year, resp, issued, users, codes, sessions, clock>>

\* counter_payment: save(update_fields=['payment_status',
\* 'payment_reference']) of a POST
CounterPaymentStatus(p) ==
    /\ procs[p].pc = "moded"
    /\ LET paying == [Instance(p) EXCEPT
                         !.payment_status = "pending",
                         !.payment_reference = CounterReference(Instance(p).request_id)]
       IN /\ requests' = UpdateFields(requests, paying,
                                      {"payment_status", "payment_reference"})
          /\ procs' = [procs EXCEPT ![p].pc = "done", ![p].row = <<paying>>,
                                    ![p].result = "none"]
    /\ UNCHANGED <<reports, nextPk, year, resp, issued, users, codes, sessions, clock>>

\* a step of request p after its SELECT
PaymentWrite(p) ==
    \/ \E now \in PayTimes : VerifyPaymentSave(p, now)
    \/ RejectPaymentSave(p)
    \/ \E mode \in {"gcash", "counter"} : ModeSelectionSave(p, mode)
    \/ GcashPaymentSave(p, PaidReference)
    \/ CounterPaymentMode(p)
    \/ CounterPaymentStatus(p)

NextPay ==
    \/ \E p \in Procs, view \in StaffPaymentViews, actor \in {"admin", "u1"},
          r \in requests : GetObject(p, view, actor, r.request_id)
    \/ \E p \in Procs, view \in OwnerPaymentViews, actor \in {"u1", "u2"},
          r \in requests : GetObject(p, view, actor, r.request_id)
    \/ \E p \in Procs, now \in PayTimes : VerifyPaymentSave(p, now)
    \/ \E p \in Procs : RejectPaymentSave(p)
    \/ \E p \in Procs, mode \in {"gcash", "counter"} : ModeSelectionSave(p, mode)
    \/ \E p \in Procs : GcashPaymentSave(p, PaidReference)
    \/ \E p \in Procs : CounterPaymentMode(p)
    \/ \E p \in Procs : CounterPaymentStatus(p)

SpecPay == InitPay /\ [][NextPay]_vars

----------------------------------------------------------------------------
\* Interleaved reset_password requests on one code: each request in flight
\* runs its SELECT and its two UPDATEs as separate queries, and the queries
\* of the other request fall in between.

\* the code the storage holds at the start: one of u1 that was issued at 0
\* and verified, so that sessions are bound to it
VerifiedCode ==
    [id |-> 1, user |-> 2, code |-> <<"4", "8", "3", "9", "2", "0">>,
     created_at |-> 0, is_used |-> FALSE]

\* a reset request that has not arrived
NoReset == [pc |-> "idle", b |-> "none", code |-> <<>>, new_password |-> NoneStr,
            result |-> "none"]

\* both browsers are bound to the code, or b1 alone; the clock shows the
\* time of issue or a time after the validity window
InitResetRace ==
    /\ requests = {}
    /\ nextPk = 1
    /\ year = 2025
    /\ resp = NoResponse
    /\ issued = <<>>
    /\ procs = [p \in Procs |-> NoReset]
    /\ users = InitialUsers
    /\ codes = {VerifiedCode}
    /\ sessions \in {[b \in Browsers |-> Bound(NoSession, VerifiedCode)],
                     [b \in Browsers |-> IF b = "b1"
                                         THEN Bound(NoSession, VerifiedCode)
                                         ELSE NoSession]}
    /\ clock \in {0, 301}
    /\ reports = {}

\* the passwords the form is filled with, twice the same
RacePasswords == {NewPassword, WrongPassword, ShortPassword}

\* request p ends with `result` and the session of browser b as `session`
ResetEnded(p, b, session, result) ==
    /\ procs' = [procs EXCEPT ![p] = [NoReset EXCEPT !.pc = "done", !.b = b,
                                                     !.result = result]]
    /\ sessions' = [sessions EXCEPT ![b] = session]

\* reset_password of a POST up to the validation of the form: the session
\* test, PasswordResetCode.objects.get(id=..., is_used=False), is_valid()
\* and the two tests of the passwords
GetResetCode(p, b, new_password, confirm_password) ==
    LET found == {k \in codes : k.id = sessions[b].reset_code_id /\ ~k.is_used}
    IN /\ procs[p].pc = "idle"
       /\ IF sessions[b].reset_code_id = 0
          THEN ResetEnded(p, b, sessions[b], "no_session")
          ELSE IF found = {}
          THEN ResetEnded(p, b, Unbound(sessions[b]), "invalid_session")
          ELSE LET reset_code == CHOOSE k \in found : TRUE
               IN IF ~is_valid(reset_code, clock)
                  THEN ResetEnded(p, b, Unbound(sessions[b]), "session_expired")
                  ELSE IF new_password # confirm_password \/ Len(new_password) < 8
                  THEN ResetEnded(p, b, sessions[b], "error")
                  ELSE /\ procs' = [procs EXCEPT ![p] =
                                       [pc |-> "loaded", b |-> b,
                                        code |-> <<reset_code>>,
                                        new_password |-> new_password,
                                        result |-> "none"]]
                       /\ UNCHANGED sessions
       /\ UNCHANGED <<reports, requests, nextPk, year, resp, issued, users, codes, clock>>

\* reset_code.user.set_password(new_password); reset_code.user.save()
SaveResetUser(p) ==
    /\ procs[p].pc = "loaded"
    /\ users' = {IF u.id = procs[p].code[1].user
                 THEN [u EXCEPT !.password = PasswordHash(procs[p].new_password)]
                 ELSE u : u \in users}
    /\ procs' = [procs EXCEPT ![p].pc = "user_saved"]
    /\ UNCHANGED <<reports, requests, nextPk, year, resp, issued, codes, sessions, clock>>

\* reset_code.is_used = True; reset_code.save()
SaveResetCode(p) ==
    /\ procs[p].pc = "user_saved"
    /\ codes' = {IF k.id = procs[p].code[1].id THEN Consumed(procs[p].code[1])
                 ELSE k : k \in codes}
    /\ procs' = [procs EXCEPT ![p].pc = "code_saved"]
    /\ UNCHANGED <<reports, requests, nextPk, year, resp, issued, users, sessions, clock>>

\* del request.session['reset_code_id'], the success message and the
\* redirect to login
ClearResetSession(p) ==
    /\ procs[p].pc = "code_saved"
    /\ sessions' = [sessions EXCEPT ![procs[p].b] = Unbound(sessions[procs[p].b])]
    /\ procs' = [procs EXCEPT ![p].pc = "done", ![p].result = "success"]
    /\ UNCHANGED <<reports, requests, nextPk, year, resp, issued, users, codes, clock>>

NextResetRace ==
    \/ \E p \in Procs, b \in Browsers, new_password \in RacePasswords :
           \E confirm_password \in {new_password, ShortPassword} :
               GetResetCode(p, b, new_password, confirm_password)
    \/ \E p \in Procs : SaveResetUser(p)
    \/ \E p \in Procs : SaveResetCode(p)
    \/ \E p \in Procs : ClearResetSession(p)

SpecResetRace == InitResetRace /\ [][NextResetRace]_vars

----------------------------------------------------------------------------
\* Interleaved admin_change_user_type requests: each request in flight runs
\* the SELECT of the target, the query for the remaining admins and the
\* UPDATE as separate queries, and the queries of the other request fall in
\* between.

\* a role change that has not arrived
NoRoleChange == [pc |-> "idle", target_user |-> <<>>, new_type |-> "None",
                 result |-> "none"]

\* the accounts at the start: the first admin and u1 are the only two
\* superusers, or the first admin is the only one; u2 is a resident
InitRoleRace ==
    /\ requests = {}
    /\ nextPk = 1
    /\ year = 2025
    /\ resp = NoResponse
    /\ issued = <<>>
    /\ procs = [p \in Procs |-> NoRoleChange]
    /\ users \in {{UserRow(1, "admin", "admin@x", FirstPassword, TRUE, TRUE, TRUE),
                   UserRow(2, "u1", "u1@x", FirstPassword, FALSE, TRUE, TRUE),
                   UserRow(3, "u2", "u2@x", FirstPassword, FALSE, FALSE, TRUE)},
                  InitialUsers}
    /\ codes = {}
    /\ sessions = [b \in Browsers |-> NoSession]
    /\ clock = 0
    /\ reports = {}

\* request p ends with `result`
RoleChangeEnded(p, result) ==
    procs' = [procs EXCEPT ![p].pc = "done", ![p].result = result]

\* admin_change_user_type of a POST by `actor` up to the test of user_type
GetTargetUser(p, actor, user_id, new_type) ==
    LET found == {u \in users : u.id = user_id}
    IN /\ procs[p].pc = "idle"
       /\ IF ~is_admin(actor) THEN RoleChangeEnded(p, "denied")
          ELSE IF found = {} THEN RoleChangeEnded(p, "404")
          ELSE IF new_type \notin {"resident", "admin"}
          THEN RoleChangeEnded(p, "error")
          ELSE procs' = [procs EXCEPT ![p] =
                            [pc |-> "loaded",
                             target_user |-> <<CHOOSE u \in found : TRUE>>,
                             new_type |-> new_type, result |-> "none"]]
       /\ UNCHANGED <<reports, requests, nextPk, year, resp, issued, users, codes, sessions, clock>>

\* the safety check: remaining_admins.exists() for a demotion of a superuser
CheckRemainingAdmins(p) ==
    /\ procs[p].pc = "loaded"
    /\ IF /\ procs[p].new_type = "resident"
          /\ procs[p].target_user[1].is_superuser
          /\ remaining_admins(procs[p].target_user[1]) = {}
       THEN RoleChangeEnded(p, "last_admin")
       ELSE procs' = [procs EXCEPT ![p].pc = "checked"]
    /\ UNCHANGED <<reports, requests, nextPk, year, resp, issued, users, codes, sessions, clock>>

\* the assignment of the flags and target_user.save()
SaveTargetUser(p) ==
    /\ procs[p].pc = "checked"
    /\ users' = UpdateUser(users, RoleChanged(procs[p].target_user[1],
                                              procs[p].new_type))
    /\ RoleChangeEnded(p, "success")
    /\ UNCHANGED <<reports, requests, nextPk, year, resp, issued, codes, sessions, clock>>

NextRoleRace ==
    \/ \E p \in Procs, actor \in {"admin", "u1", "u2"}, user_id \in UserIds,
          new_type \in UserTypeFields :
           GetTargetUser(p, actor, user_id, new_type)
    \/ \E p \in Procs : CheckRemainingAdmins(p)
    \/ \E p \in Procs : SaveTargetUser(p)

SpecRoleRace == InitRoleRace /\ [][NextRoleRace]_vars

----------------------------------------------------------------------------
\* The loop of CertificateRequest.save, pass by pass, for one submission
\* over tables that make it run short and long.

\* the sequence numbers of the rows stored at the start: none; the last
\* number of four digits; that number and the one after it; those and the
\* ten numbers the jitter can reach; those but the last of the ten
LoopSeeds ==
    {{}, {9999}, {9999, 10000}, {9999} \cup (10000..10010), {9999} \cup (10000..10009)}

LoopRow(n) ==
    NewRequest(n, "u1", FormatRequestId(2025, n), "barangay_clearance",
               SeedPurpose, 50)

InitLoop ==
    \E seed \in LoopSeeds :
        /\ requests = {LoopRow(n) : n \in seed}
        /\ nextPk = 10011
        /\ year = 2025
        /\ resp = NoResponse
        /\ issued = <<>>
        /\ procs = [p \in Procs |-> Idle]
        /\ InitAccounts
        /\ reports = {}

\* the one submission
BeginOnly == issued = <<>> /\ InFlight = {} /\ Begin("p1", "u1", SeedPurpose)

NextLoop ==
    \/ BeginOnly
    \/ Propose("p1")
    \/ CheckStored("p1")
    \/ InsertRow("p1")

SpecLoop == InitLoop /\ [][NextLoop]_vars

\* the worker that runs save() goes on to its next statement: the loop has
\* no wait, the exists() query and the INSERT return, and so does the max
\* query, which is to be run exactly while pc is "propose"
SpecLoopFair ==
    /\ SpecLoop
    /\ WF_vars(BeginOnly)
    /\ WF_vars(CheckStored("p1"))
    /\ WF_vars(InsertRow("p1"))
    /\ []<>(procs["p1"].pc # "propose")

----------------------------------------------------------------------------
\* Properties of the request identifier.

\* REQ-<4 digits>-<4 digits>
WellFormedId(id) ==
    /\ Len(id) = 13
    /\ SubSeq(id, 1, 4) = <<"R", "E", "Q", "-">>
    /\ \A i \in 5..8 : IsDigit(id[i])
    /\ id[9] = "-"
    /\ \A i \in 10..13 : IsDigit(id[i])

\* the year part with its dashes, and the sequence number, of an identifier
YearPart(id) == SubSeq(id, 1, 9)

SeqNumber(id) == ParseInt(SplitLast(id))

\* C1: no two stored CertificateRequest rows share a request_id, also when
\* creations interleave and propose the same identifier before either inserts.
C1_UniqueRequestId ==
    \A r1, r2 \in requests : r1.request_id = r2.request_id => r1.pk = r2.pk

\* C1, its case: two submissions proposed the same identifier, one row holds
\* it and the other submission's insert was refused.
C1_RaceOnOneId ==
    \E p, q \in Procs :
        /\ p # q
        /\ procs[p].result = "created"
        /\ procs[q].result = "IntegrityError"
        /\ procs[p].request_id = procs[q].request_id
        /\ Cardinality(ById(requests, procs[p].request_id)) = 1

\* C2: every request_id that save() assigned and stored has the form
\* REQ-<4-digit year>-<exactly 4 digits>, whatever rows existed before.
C2_FourDigitSequence ==
    \A i \in 1..Len(issued) : WellFormedId(issued[i])

\* C3: every submission in flight that has ended, ended with a stored request
\* of its own and not in a constraint error.
C3_EverySubmissionStored ==
    \A p \in Procs :
        procs[p].result # "none" =>
            /\ procs[p].result = "created"
            /\ \E r \in requests : /\ r.request_id = procs[p].request_id
                                   /\ r.user = procs[p].user

\* C4: with requests handled one at a time, the sequence number of each
\* created request is greater than that of every request created before it
\* in the same year, whatever was cancelled or deleted in between.
C4_IncreasingPerYear ==
    \A i, j \in 1..Len(issued) :
        (i < j /\ YearPart(issued[i]) = YearPart(issued[j]))
            => SeqNumber(issued[i]) < SeqNumber(issued[j])

----------------------------------------------------------------------------
\* Properties of the request lifecycle.

\* the row of the next state that continues row r
Same(r, r2) == r.pk = r2.pk

\* C5: payment_status changes only along unpaid -> pending, pending -> paid
\* and pending -> failed.
C5_PaymentEdges ==
    [][\A r \in requests, r2 \in requests' :
           (Same(r, r2) /\ r.payment_status # r2.payment_status)
               => <<r.payment_status, r2.payment_status>> \in
                      {<<"unpaid", "pending">>, <<"pending", "paid">>,
                       <<"pending", "failed">>}]_vars

\* C6: admin_verify_payment and admin_reject_payment, called for a request
\* whose payment_status is not pending, leave the table as it is and answer
\* with a redirect, which carries an error message when a staff member posted.
C6_OnlyPendingIsDecided ==
    [][resp'.view \in {"admin_verify_payment", "admin_reject_payment"} =>
       \A actor \in Actors, id \in IdArgs, method \in Methods, now \in Times :
           (/\ \/ admin_verify_payment(actor, id, method, now)
               \/ admin_reject_payment(actor, id, method)
            /\ \E r \in ById(requests, id) : r.payment_status # "pending")
               => /\ requests' = requests
                  /\ resp'.status = "302"
                  /\ (is_admin(actor) /\ method = "POST") => resp'.level = "error"]_vars

\* C6, its case: a staff member posted a verification for a request already
\* paid, and was answered with the error.
C6_VerifyOfPaidRefused ==
    /\ resp.view = "admin_verify_payment"
    /\ resp.level = "error"
    /\ \E r \in requests : r.payment_status = "paid"

\* C7: cancel_request by the owner removes the request if and only if its
\* payment_status is unpaid; otherwise the table stays as it is and the
\* response carries an error message.
C7_CancelIffUnpaid ==
    [][resp'.view = "cancel_request" =>
       \A actor \in Actors, id \in IdArgs :
           cancel_request(actor, id) =>
               \A r \in OwnedBy(requests, id, actor) :
                   IF r.payment_status = "unpaid"
                   THEN requests' = requests \ {r}
                   ELSE requests' = requests /\ resp'.level = "error"]_vars

\* C7, its case: the owner tried to cancel a request whose payment is
\* pending, the request is still stored and the error was shown.
C7_CancelOfPendingRefused ==
    /\ resp.view = "cancel_request"
    /\ resp.level = "error"
    /\ \E r \in requests : r.payment_status = "pending"

\* C8: once payment_status is pending or paid, no request changes
\* payment_mode.
C8_ModeFrozenOncePending ==
    [][\A r \in requests, r2 \in requests' :
           (Same(r, r2) /\ r.payment_status \in {"pending", "paid"})
               => r2.payment_mode = r.payment_mode]_vars

\* a payment_mode and a payment_reference that are set
ModeAndReferenceSet(r) ==
    /\ r.payment_mode \in {"gcash", "counter"}
    /\ r.payment_reference # NoneStr
    /\ Len(r.payment_reference) > 0

\* C9: a request whose payment_status is pending, paid or failed has a
\* payment_mode and a non-empty payment_reference, and gcash_payment moves to
\* pending only a request whose payment_mode is gcash.
C9_ModeBeforePending ==
    /\ [](\A r \in requests :
              r.payment_status \in {"pending", "paid", "failed"}
                  => ModeAndReferenceSet(r))
    /\ [][resp'.view = "gcash_payment" =>
              \A r \in requests, r2 \in requests' :
                  (Same(r, r2) /\ r2 # r /\ r2.payment_status = "pending")
                      => r.payment_mode = "gcash"]_vars

\* C9, its case: gcash_payment moved a request to pending.
C9_GcashPending ==
    /\ resp.view = "gcash_payment"
    /\ resp.level = "success"
    /\ \E r \in requests : /\ r.payment_status = "pending"
                           /\ r.payment_mode = "gcash"

\* C10: a paid request has paid_at set and a claimed one has claimed_at set,
\* and the staff verification of a pending request makes it paid and sets
\* paid_at to the time of the verification.
C10_TimestampsFollowStatus ==
    /\ [](\A r \in requests :
              /\ r.payment_status = "paid" => r.paid_at \in Times
              /\ r.claim_status = "claimed" => r.claimed_at \in Times)
    /\ [][resp'.view = "admin_verify_payment" =>
          \A id \in IdArgs, now \in Times :
              (/\ admin_verify_payment("admin", id, "POST", now)
               /\ \E r \in ById(requests, id) : r.payment_status = "pending")
                  => \A r \in ById(requests, id) :
                         \E r2 \in requests' :
                             /\ Same(r, r2)
                             /\ r2.payment_status = "paid"
                             /\ r2.paid_at = now]_vars

\* C10, its case: a request paid by GCash under the reference 1234567890
\* was verified by staff.
C10_VerifiedGcashRequest ==
    /\ resp.view = "admin_verify_payment"
    /\ resp.level = "success"
    /\ \E r \in requests :
           /\ r.payment_mode = "gcash"
           /\ r.payment_reference =
                  <<"1", "2", "3", "4", "5", "6", "7", "8", "9", "0">>
           /\ r.payment_status = "paid"
           /\ r.paid_at \in Times

----------------------------------------------------------------------------
\* Properties of the claim axis.

\* C11: for every stored request whose claim_status is processing, ready or
\* claimed, whatever its payment_status, some staff claim-status request
\* (admin_update_claim_status or admin_reject_payment) moves its claim_status
\* to failed.
C11_FailedFromAnyClaimState ==
    \A r \in requests :
        r.claim_status \in {"processing", "ready", "claimed"} =>
            ENABLED (/\ UpdateClaim \/ RejectPayment
                     /\ \E r2 \in requests' : /\ Same(r, r2)
                                               /\ r2.claim_status = "failed")

\* C12: claim_status changes only along processing -> ready and
\* ready -> claimed, or to failed: never back from claimed or ready, and
\* never out of failed.
C12_ClaimEdges ==
    [][\A r \in requests, r2 \in requests' :
           (Same(r, r2) /\ r.claim_status # r2.claim_status)
               => \/ <<r.claim_status, r2.claim_status>> \in
                         {<<"processing", "ready">>, <<"ready", "claimed">>}
                  \/ r.claim_status # "failed" /\ r2.claim_status = "failed"]_vars

\* C13: a staff POST to admin_update_claim_status with ready or claimed for
\* a stored request is answered with success and stores the new claim_status,
\* whatever the payment_status, which it leaves as it is.
C13_ClaimNotCoupledToPayment ==
    [][resp'.view = "admin_update_claim_status" =>
       \A id \in IdArgs, new_status \in {"ready", "claimed"}, now \in Times :
           admin_update_claim_status("admin", id, "POST", new_status, now)
               => \A r \in ById(requests, id) :
                      /\ resp'.level = "success"
                      /\ \E r2 \in requests' :
                             /\ Same(r, r2)
                             /\ r2.claim_status = new_status
                             /\ r2.payment_status = r.payment_status]_vars

\* C13, its case: staff marked as claimed a request that was never paid for.
C13_ClaimedWhileUnpaid ==
    /\ resp.view = "admin_update_claim_status"
    /\ resp.level = "success"
    /\ \E r \in requests : /\ r.claim_status = "claimed"
                           /\ r.payment_status = "unpaid"

----------------------------------------------------------------------------
\* Properties of the user table.

\* C14: with role changes handled one at a time, a user with is_superuser
\* exists in every state, and the refusal to demote the last admin leaves
\* the user table, the target's role flags with it, as it is.
C14_AdminRemains ==
    /\ [](\E u \in users : u.is_superuser)
    /\ [][resp' = LastAdminRefused("admin_change_user_type")
              => users' = users]_vars

\* C14, its case: the first admin was demoted after another user was
\* promoted, and the demotion of that last admin was refused.
C14_LastAdminKept ==
    /\ resp = LastAdminRefused("admin_change_user_type")
    /\ \E u \in users : /\ u.is_superuser
                        /\ u.username # "admin"
                        /\ remaining_admins(u) = {}

\* C15: in every state some user has is_superuser and is_active, whatever
\* role changes, deactivations and activations were made.
C15_ActiveAdminRemains ==
    \E u \in users : u.is_superuser /\ u.is_active

\* C16: an account is stored by register with resident_confirmation false,
\* whatever the form holds, and resident_confirmation becomes true only in
\* admin_verify_user; hence no login succeeds as an account that staff did
\* not verify.
C16_UnverifiedUntilStaffVerifies ==
    [][/\ \A u2 \in users' :
              (\A u \in users : u.id # u2.id) => ~u2.resident_confirmation
       /\ \A u \in users, u2 \in users' :
              (/\ u.id = u2.id
               /\ ~u.resident_confirmation
               /\ u2.resident_confirmation) => resp'.view = "admin_verify_user"
       /\ \A b \in Browsers :
              (resp'.view = "login" /\ sessions'[b].user # sessions[b].user)
                  => \E u \in users : /\ u.id = sessions'[b].user
                                      /\ u.resident_confirmation]_vars

----------------------------------------------------------------------------
\* Properties of the password reset.

\* C17: for every stored code and every time, is_valid is true if and only
\* if the code is unused and was created at most 300 seconds before; a code
\* is valid 300 seconds after its creation and invalid 301 seconds after it.
C17_ValidIffUnusedAndRecent ==
    \A k \in codes, t \in ClockTimes :
        /\ is_valid(k, t) <=> (~k.is_used /\ t - k.created_at <= 300)
        /\ (~k.is_used /\ t - k.created_at = 300) => is_valid(k, t)
        /\ t - k.created_at = 301 => ~is_valid(k, t)

\* C17, its case: an unused code is 300 seconds old, and valid.
C17_ValidAtTheBoundary ==
    \E k \in codes : /\ ~k.is_used
                     /\ clock - k.created_at = 300
                     /\ is_valid(k, clock)

\* C18: a POST to verify_code for a stored user binds the session to a code
\* if and only if a code of that user with the submitted digits is unused
\* and valid; a matching code that expired is answered with the redirect to
\* a new issue, a code that does not match with the error, and both leave
\* the sessions and the stored codes as they are.
C18_BindsIffMatchingAndValid ==
    [][resp'.view = "verify_code" =>
       \A b \in Browsers, user_id \in ResetUserIds, entered_code \in EnteredCodes :
           (/\ \E u \in users : u.id = user_id
            /\ verify_code(b, "POST", user_id, entered_code))
               => LET matching == MatchingCodes(user_id, entered_code)
                      valid == {k \in matching : ~k.is_used /\ clock - k.created_at <= 300}
                  IN /\ codes' = codes
                     /\ IF valid # {}
                        THEN /\ \E k \in valid : sessions'[b].reset_code_id = k.id
                             /\ resp' = Redirect("verify_code", "success")
                        ELSE /\ sessions' = sessions
                             /\ IF matching # {}
                                THEN resp' = CodeExpired("verify_code")
                                ELSE resp' = Render("verify_code", "error")]_vars

\* C18, its case: a code issued at 0 was submitted at 301, and refused as
\* expired with no session bound.
C18_ExpiredCodeRefused ==
    /\ resp = CodeExpired("verify_code")
    /\ clock = 301
    /\ \E k \in codes : k.created_at = 0 /\ ~k.is_used
    /\ \A b \in Browsers : sessions[b].reset_code_id = 0

\* C19: a password changes only in a successful reset_password, which in
\* the same request marks the unused, valid code of its session used and
\* removes the binding; a used code stays used, and verify_code binds no
\* used code.  So each code changes a password at most once.
C19_CodeConsumedOnce ==
    [][/\ \A k \in codes, k2 \in codes' :
              (k.id = k2.id /\ k.is_used) => k2.is_used
       /\ users' # users => resp' = Redirect("reset_password", "success")
       /\ resp' = Redirect("reset_password", "success") =>
              \A b \in Browsers, new_password \in PasswordFields :
                  reset_password(b, "POST", new_password, new_password) =>
                      \E k \in codes :
                          /\ sessions[b].reset_code_id = k.id
                          /\ ~k.is_used /\ clock - k.created_at <= 300
                          /\ sessions'[b].reset_code_id = 0
                          /\ \E k2 \in codes' : k2.id = k.id /\ k2.is_used
                          /\ \A u \in users, u2 \in users' :
                                 (u.id = u2.id /\ u # u2) => u.id = k.user
       /\ \A b \in Browsers :
              (/\ sessions'[b].reset_code_id # sessions[b].reset_code_id
               /\ sessions'[b].reset_code_id # 0)
                  => \E k \in codes : /\ k.id = sessions'[b].reset_code_id
                                      /\ ~k.is_used]_vars

\* C19, its case: a code bound to two sessions changed the password in one
\* of them; it is used, and the other session still names it.
C19_UsedCodeStillBound ==
    /\ resp = Redirect("reset_password", "success")
    /\ \E k \in codes, b \in Browsers :
           /\ k.is_used
           /\ sessions[b].reset_code_id = k.id

\* C20: reset_password called with a session bound to a code that expired
\* or was used changes no password and no code, removes reset_code_id from
\* the session and redirects to forgot_password.
C20_StaleBindingRestarts ==
    [][resp'.view = "reset_password" =>
       \A b \in Browsers, method \in Methods, form \in PasswordForms :
           (/\ \E k \in codes : /\ k.id = sessions[b].reset_code_id
                                /\ (k.is_used \/ clock - k.created_at > 300)
            /\ reset_password(b, method, form[1], form[2]))
               => /\ users' = users
                  /\ codes' = codes
                  /\ sessions'[b].reset_code_id = 0
                  /\ resp' \in {SessionExpired("reset_password"),
                                InvalidSession("reset_password")}]_vars

\* C20, its case: a code verified in time had expired when the new
\* password was sent, and the session lost its binding.
C20_ExpiredAfterVerification ==
    /\ resp = SessionExpired("reset_password")
    /\ \A b \in Browsers : sessions[b].reset_code_id = 0
    /\ \E k \in codes : ~k.is_used /\ clock - k.created_at > 300

\* C21: a request that issues a code (forgot_password, resend_code) adds one
\* row and leaves every code stored before it as it was, is_used and
\* created_at included; and a POST to verify_code with the digits of an
\* unused code still inside its five minutes binds the session to it also
\* when a later code of the same user is stored.
C21_EarlierCodesStay ==
    [][/\ Cardinality(codes') > Cardinality(codes) => codes \subseteq codes'
       /\ resp'.view = "verify_code" =>
           \A b \in Browsers, user_id \in ResetUserIds, entered_code \in EnteredCodes :
               (/\ \E k \in codes, k2 \in codes :
                       /\ k.user = user_id /\ k2.user = user_id /\ k2.id > k.id
                       /\ k.code = entered_code
                       /\ ~k.is_used /\ clock - k.created_at <= 300
                /\ verify_code(b, "POST", user_id, entered_code))
                   => /\ resp'.level = "success"
                      /\ \E k \in codes : /\ k.code = entered_code
                                           /\ k.user = user_id
                                           /\ sessions'[b].reset_code_id = k.id]_vars

\* C21, its case: two unused codes of one user are stored, both inside
\* their five minutes, and verify_code has just bound a session to the
\* earlier one.
C21_EarlierCodeVerified ==
    /\ resp.view = "verify_code" /\ resp.level = "success"
    /\ \E k \in codes, k2 \in codes, b \in Browsers :
           /\ k.user = k2.user /\ k2.id > k.id
           /\ ~k.is_used /\ ~k2.is_used
           /\ is_valid(k, clock) /\ is_valid(k2, clock)
           /\ sessions[b].reset_code_id = k.id

\* C22: every POST to forgot_password is answered alike, with the message
\* that a code was sent if the account exists and the redirect to the login
\* page, whether or not the e-mail address is that of a stored user (the
\* mail being delivered).
C22_SameAnswerForAnyEmail ==
    [][resp'.view = "forgot_password" =>
       \A b \in IssuingBrowsers, email \in ResetEmails :
           forgot_password(b, "POST", email, "sent")
               => resp' = AccountHidden("forgot_password")]_vars

\* C23: a forgot_password or resend_code request whose mail is not sent is
\* answered with an error, stores nothing (the codes, users and sessions
\* are those before the request) and does not put the undelivered code
\* in the session.
C23_FailedMailStoresNothing ==
    [][resp'.view \in {"forgot_password", "resend_code"} =>
       \A b \in IssuingBrowsers :
           (\/ \E email \in ResetEmails : forgot_password(b, "POST", email, "failed")
            \/ \E user_id \in ResendUserIds : resend_code(b, user_id, "failed"))
               => /\ resp'.level \in {"error", "success_if_exists", "none"}
                  /\ codes' = codes
                  /\ users' = users
                  /\ sessions' = sessions]_vars

\* C24: brgy_indigency_cert changes the table only when a photo was sent,
\* its declared content type is image/jpeg, image/jpg or image/png in any
\* case of letters, its size is at most 5 MB (5242880 bytes) and the upload
\* returned a URL; without a photo, with another type, a larger size or a
\* failed upload the rows are those before the request.  Every stored
\* indigency request has a proof_photo_url.
C24_IndigencyNeedsProof ==
    /\ [](\A r \in requests : r.certificate_type = "indigency"
                                  => (r.proof_photo_url # NoneStr
                                      /\ Len(r.proof_photo_url) > 0))
    /\ [][resp'.view = "brgy_indigency_cert" =>
          \A actor \in FormActors, method \in Methods, purpose \in Purposes,
             proof_photo \in ProofPhotos, upload \in UploadOutcomes :
              brgy_indigency_cert(actor, method, purpose, proof_photo, upload)
                  => \/ requests' = requests
                     \/ /\ proof_photo # <<>>
                        /\ Lower(proof_photo[1].content_type) \in
                               {<<"i", "m", "a", "g", "e", "/", "j", "p", "e", "g">>,
                                <<"i", "m", "a", "g", "e", "/", "j", "p", "g">>,
                                <<"i", "m", "a", "g", "e", "/", "p", "n", "g">>}
                        /\ proof_photo[1].size <= 5242880
                        /\ upload # NoneStr
                        /\ \E r \in requests' : /\ r.certificate_type = "indigency"
                                                 /\ r.proof_photo_url = upload]_vars

\* C24, its case: an indigency request was stored with the URL the upload
\* returned.
C24_IndigencyStoredWithProof ==
    /\ resp = Redirect("brgy_indigency_cert", "success")
    /\ \E r \in requests : /\ r.certificate_type = "indigency"
                            /\ r.proof_photo_url \in UploadOutcomes \ {NoneStr}

\* a text column that holds a value
FieldSet(field) == field # NoneStr /\ Len(field) > 0

\* C25: brgy_business_cert changes the table only when the purpose has at
\* least 10 characters after trimming, the four business texts and the
\* count are present, and the count is the decimal form of an integer
\* n >= 0 (0 included), which is what the new row stores; in every other
\* case the rows are those before the request.  Every stored
\* business-clearance request has the five business fields set.
C25_BusinessFormValidated ==
    /\ [](\A r \in requests : r.certificate_type = "business_clearance"
              => /\ FieldSet(r.business_name) /\ FieldSet(r.business_type)
                 /\ FieldSet(r.business_nature) /\ FieldSet(r.business_address)
                 /\ r.employees_count # <<>> /\ r.employees_count[1] >= 0)
    /\ [][resp'.view = "brgy_business_cert" =>
          \A actor \in FormActors, method \in Methods, purpose \in Purposes,
             form \in BusinessForms :
              brgy_business_cert(actor, method, purpose, form)
                  => \/ requests' = requests
                     \/ /\ purpose # NoneStr /\ Len(Strip(purpose)) >= 10
                        /\ FieldSet(form.business_name) /\ FieldSet(form.business_type)
                        /\ FieldSet(form.business_nature)
                        /\ FieldSet(form.business_address)
                        /\ \E n \in 0..12 :
                               /\ form.employees_count \in
                                      {Str(n), <<" ">> \o Str(n) \o <<" ">>}
                               /\ \E r \in requests' :
                                      /\ r.certificate_type = "business_clearance"
                                      /\ r.employees_count = <<n>>]_vars

\* C25, its case: a business clearance was stored with 0 employees.
C25_BusinessStoredWithZero ==
    /\ resp = Redirect("brgy_business_cert", "success")
    /\ \E r \in requests : /\ r.certificate_type = "business_clearance"
                            /\ r.employees_count = <<0>>

\* C26: a row that enters the table is unpaid and processing, with no
\* payment mode and no paid_at and claimed_at, and is charged the fee of
\* its type: barangay clearance 50, residency 30, indigency 30, good moral
\* 40, business clearance 100.  A row that stays in the table keeps its
\* payment_amount and its certificate_type.
C26_CreatedUnpaidAtTheFee ==
    [][\A r2 \in requests' :
           IF \E r \in requests : r.pk = r2.pk
           THEN \A r \in requests :
                    r.pk = r2.pk => /\ r2.payment_amount = r.payment_amount
                                    /\ r2.certificate_type = r.certificate_type
           ELSE /\ r2.payment_status = "unpaid"
                /\ r2.claim_status = "processing"
                /\ r2.payment_mode = "None"
                /\ r2.paid_at = "None" /\ r2.claimed_at = "None"
                /\ <<r2.certificate_type, r2.payment_amount>> \in
                       {<<"barangay_clearance", 50>>, <<"residency", 30>>,
                        <<"indigency", 30>>, <<"good_moral", 40>>,
                        <<"business_clearance", 100>>}]_vars

\* C26, its case: a business clearance charged 100 was paid and claimed,
\* and is still a business clearance charged 100.
C26_ClaimedAtTheFee ==
    \E r \in requests : /\ r.certificate_type = "business_clearance"
                         /\ r.payment_amount = 100
                         /\ r.payment_status = "paid"
                         /\ r.claim_status = "claimed"

\* C27: a POST to file_report by a resident with a type of the list, a
\* place of at least 5 characters and a message of at least 20 characters
\* after trimming (20 included) adds a report of that resident with the
\* status Pending and a report_id made of RPT- and 8 hexadecimal digits in
\* capitals.
C27_ValidReportStored ==
    [][resp'.view = "file_report" =>
       \A report_type \in ReportTypeInputs \cap valid_report_types,
          place \in PlaceInputs \ {NoneStr}, message \in MessageInputs \ {NoneStr} :
           (/\ Len(Strip(place)) >= 5
            /\ Len(Strip(message)) >= 20
            /\ file_report("u1", "POST", report_type, place, message))
               => \E r \in reports' \ reports :
                      /\ r.user = "u1"
                      /\ r.status = "Pending"
                      /\ Len(r.report_id) = 12
                      /\ SubSeq(r.report_id, 1, 4) = <<"R", "P", "T", "-">>
                      /\ \A i \in 5..12 : r.report_id[i] \in HexChars]_vars

\* C28: a POST to file_report without a type, place or message, with a
\* type outside Theft, Assault, Vandalism, Disturbance and Other, with a
\* place of fewer than 5 characters or a message of fewer than 20
\* characters after trimming (19 for one) is answered with the form and
\* the error of that check, and the reports stay as they were.
C28_InvalidReportRefused ==
    [][resp'.view = "file_report" =>
       \A report_type \in ReportTypeInputs, place \in PlaceInputs,
          message \in MessageInputs :
           (/\ \/ report_type = "None" \/ place = NoneStr \/ message = NoneStr
               \/ report_type \notin {"Theft", "Assault", "Vandalism",
                                      "Disturbance", "Other"}
               \/ Len(Strip(place)) < 5
               \/ Len(Strip(message)) < 20
            /\ file_report("u1", "POST", report_type, place, message))
               => /\ reports' = reports
                  /\ resp'.status = "200"
                  /\ resp'.level \in {"error_required", "error_type",
                                      "error_place", "error_message"}]_vars

\* C28, its case: a message of 19 characters, the one message sent that
\* is too short, was refused while the table held two reports.
C28_NineteenCharactersRefused ==
    /\ resp = Render("file_report", "error_message")
    /\ Cardinality(reports) = 2

\* C29: a POST of staff to admin_update_report_status with one of Pending,
\* Under Investigation, Mediation Scheduled and Resolved gives the report
\* that status whatever status it had, and leaves the other reports alone;
\* with any other value it is answered with an error and the reports stay
\* as they were.  The status of every stored report is one of the four.
C29_AnyStatusToAnyStatus ==
    /\ [](\A r \in reports :
              r.status \in {"Pending", "Under Investigation",
                            "Mediation Scheduled", "Resolved"})
    /\ [][resp'.view = "admin_update_report_status" =>
          \A id \in ReportIdArgs, new_status \in StatusInputs :
              (/\ \E r \in reports : r.report_id = id
               /\ admin_update_report_status("admin", id, "POST", new_status))
                  => IF new_status \in {"Pending", "Under Investigation",
                                        "Mediation Scheduled", "Resolved"}
                     THEN /\ resp'.level = "success"
                          /\ reports' = {IF r.report_id = id
                                         THEN [r EXCEPT !.status = new_status]
                                         ELSE r : r \in reports}
                     ELSE /\ resp'.level = "error"
                          /\ reports' = reports]_vars

\* C29, its case: staff have set the status of the two reports, one to
\* Resolved and one to Mediation Scheduled.
C29_StatusMovedByStaff ==
    /\ resp = Redirect("admin_update_report_status", "success")
    /\ \E r \in reports, r2 \in reports :
           r.status = "Resolved" /\ r2.status = "Mediation Scheduled"

\* C30: request_detail, payment_mode_selection, gcash_payment,
\* counter_payment and cancel_request called for a stored request by a
\* logged-in user who is not its owner, staff included, and report_detail
\* called for a stored report by such a user, answer not found and leave
\* the requests and the reports as they were.
C30_OnlyTheOwnerActs ==
    [][resp'.view \in {"request_detail", "payment_mode_selection", "gcash_payment",
                       "counter_payment", "cancel_request", "report_detail"} =>
       \A actor \in LoggedIn :
           /\ \A r \in requests :
                  (/\ r.user # actor
                   /\ \/ request_detail(actor, r.request_id)
                      \/ \E method \in Methods, mode \in ModeInputs :
                             payment_mode_selection(actor, r.request_id, method, mode)
                      \/ \E method \in Methods, reference \in ReferenceInputs :
                             gcash_payment(actor, r.request_id, method, reference)
                      \/ \E method \in Methods :
                             counter_payment(actor, r.request_id, method)
                      \/ cancel_request(actor, r.request_id))
                     => /\ resp'.status = "404"
                        /\ requests' = requests /\ reports' = reports
           /\ \A r \in reports :
                  (r.user # actor /\ report_detail(actor, r.report_id))
                     => /\ resp'.status = "404"
                        /\ requests' = requests /\ reports' = reports]_vars

\* C30, its case: a request whose payment its owner has sent is stored,
\* and a cancel_request of another user for it was answered not found.
C30_CancelByAnotherNotFound ==
    /\ resp = NotFound("cancel_request")
    /\ \E r \in requests : r.payment_status = "pending"

\* the user of browser b holds is_staff or is_superuser now
HoldsAdminRole(b) ==
    \E u \in users : /\ u.id = sessions[b].user
                     /\ u.is_active
                     /\ (u.is_staff \/ u.is_superuser)

\* C31: a request to a staff view (verify or reject a payment, update a
\* claim, delete a certificate or a report, update a report, verify,
\* activate or deactivate a user, change a role) from a browser whose user
\* holds neither is_staff nor is_superuser at that moment, or from nobody,
\* leaves the certificate requests, the reports and the accounts as they
\* were; an admin who was demoted earlier is such a user.
C31_OnlyStaffMutate ==
    [][\A b \in Browsers :
           (~HoldsAdminRole(b) /\ StaffRequest(b))
               => UNCHANGED <<requests, reports, users>>]_vars

\* the first admin, still logged in on b1 after being made a resident, was
\* sent away by admin_verify_payment while a payment waits for a decision
C31_DemotedAdminRefused ==
    /\ sessions["b1"].user = 1
    /\ \E u \in users : u.id = 1 /\ ~u.is_staff /\ ~u.is_superuser
    /\ \E r \in requests : r.payment_status = "pending"
    /\ resp = ToPersonalInfo("admin_verify_payment")

\* C32: of two staff decisions (verify or reject) in flight on one request,
\* each of which read payment_status = pending, at most one is applied and
\* answered with success: the request is not verified twice and not both
\* verified and rejected.
C32_OneDecisionTakesEffect ==
    \A p, q \in Procs :
        (/\ p # q
         /\ procs[p].view \in StaffPaymentViews
         /\ procs[q].view \in StaffPaymentViews
         /\ procs[p].result = "success")
            => procs[q].result # "success"

\* C33: a write of payment_mode_selection, gcash_payment or counter_payment
\* that read the row before the staff verification leaves a paid request
\* paid, with its paid_at.
C33_PaidIsFinalUnderOwnerWrites ==
    [][\A p \in Procs :
           (procs[p].view \in OwnerPaymentViews /\ PaymentWrite(p))
               => \A r \in requests, r2 \in requests' :
                      (Same(r, r2) /\ r.payment_status = "paid")
                          => /\ r2.payment_status = "paid"
                             /\ r2.paid_at = r.paid_at]_vars

\* request p has written a new password for the user of its code
ChangedPassword(p) ==
    procs[p].pc \in {"user_saved", "code_saved"} \/ procs[p].result = "success"

\* C34: of two reset_password requests in flight on the same code, from two
\* sessions bound to it or twice from one session, at most one changes the
\* user's password.
C34_OneChangePerCode ==
    \A p, q \in Procs :
        (p # q /\ ChangedPassword(p) /\ ChangedPassword(q))
            => procs[p].code[1].id # procs[q].code[1].id

\* C35: with two admin_change_user_type requests in flight, each demoting
\* one of the only two superusers and each checking the remaining admins
\* before either saves, at least one superuser exists in every state.
C35_ASuperuserRemains == \E u \in users : u.is_superuser

\* C36: the loop of save() ends with a request_id assigned: it makes at most
\* max_attempts passes, a pass whose candidate is not stored is the last,
\* and after max_attempts passes whose candidates were stored the
\* identifier is the time-derived one, assigned without a look at the table.
C36_SaveAssignsAnId ==
    /\ [](\A p \in Procs :
              /\ procs[p].attempt <= max_attempts
              /\ procs[p].pc = "insert" =>
                     /\ Len(procs[p].request_id) > 0
                     /\ IF procs[p].attempt < max_attempts
                        THEN ~IdExists(requests, procs[p].request_id)
                        ELSE procs[p].request_id \in FallbackIds(procs[p].year))
    /\ [][\A p \in Procs :
              (/\ procs[p].pc = "check"
               /\ ~IdExists(requests, procs[p].request_id)
               /\ procs'[p] # procs[p])
                  => /\ procs'[p].pc = "insert"
                     /\ procs'[p].request_id = procs[p].request_id]_vars
    /\ \A p \in Procs : (procs[p].pc = "propose") ~> (procs[p].pc = "insert")

\* C36, its case: a hundred passes drew stored candidates, and the
\* time-derived identifier that was assigned is one the table holds.
C36_FallbackAssignedUnchecked ==
    /\ procs["p1"].pc = "insert"
    /\ procs["p1"].attempt = max_attempts
    /\ IdExists(requests, procs["p1"].request_id)

\* the numerically largest sequence number among the rows of year y, 0 when
\* there is none
NumericMax(table, y) ==
    LET numbers == {SeqNumber(r.request_id) : r \in ExistingForYear(table, y)}
    IN IF numbers = {} THEN 0
       ELSE CHOOSE n \in numbers : \A m \in numbers : m <= n

\* C37: with submissions handled one at a time, each stored request gets the
\* sequence number max + 1, where max is the numerically largest sequence
\* number among the requests stored for the current year (1 when there is
\* none): the largest request_id in string order is the numerically largest.
C37_NextIsNumericMaxPlusOne ==
    [][\A r2 \in requests' \ requests :
           r2.request_id = FormatRequestId(year, NumericMax(requests, year) + 1)]_vars

\* C38: no stored request has claim_status ready or claimed with
\* payment_status failed, nor payment_status paid with claim_status failed:
\* the claim failure that admin_reject_payment sets with the payment failure
\* stays with it.
C38_RejectedClaimStaysFailed ==
    \A r \in requests :
        /\ r.claim_status \in {"ready", "claimed"} => r.payment_status # "failed"
        /\ r.payment_status = "paid" => r.claim_status # "failed"

\* C39: admin_verify_user, admin_deactivate_user and admin_activate_user,
\* posted by staff for an account that holds is_staff or is_superuser, also
\* one that admin_change_user_type made an admin before, end in not-found
\* and leave the user table as it is.
C39_AdminAccountsNotManaged ==
    [][\A b \in Browsers, user_id \in UserIds :
           (/\ \/ admin_verify_user(b, "POST", user_id)
               \/ admin_deactivate_user(b, "POST", user_id)
               \/ admin_activate_user(b, "POST", user_id)
            /\ is_admin(RequestUser(b))
            /\ \E u \in users : u.id = user_id /\ (u.is_staff \/ u.is_superuser))
               => /\ users' = users
                  /\ resp'.status = "404"]_vars

====
